---- MODULE Spec2Model ----
(***************************************************************************)
(* Model of the file-intake core of Auto-Transcript-Agent:                 *)
(*   src/src/monitor.py      AudioFileHandler, FolderMonitor               *)
(*   src/src/transcriber.py  AudioTranscriber                              *)
(* Three threads call FolderMonitor._process_file: the watchdog observer   *)
(* thread (AudioFileHandler), the poll thread (_poll_directory) and the    *)
(* thread that runs FolderMonitor.start (_process_existing_files).         *)
(***************************************************************************)
EXTENDS Integers, Sequences, FiniteSets, TLC

(***************************************************************************)
(* File names.  A name is a sequence of one-character strings, so that     *)
(* Path.suffix, Path.stem, str.lower and str.startswith are computed on    *)
(* the characters as pathlib computes them.                                *)
(***************************************************************************)
NameA   == <<"a", ".", "m", "p", "3">>          \* a.mp3
NameB   == <<"a", ".", "W", "A", "V">>          \* a.WAV   (upper-case extension, the stem of a.mp3)
NameTmp == <<"~", "c", ".", "o", "g", "g">>     \* ~c.ogg  (temporary, supported extension)
NameTxt == <<"n", ".", "t", "x", "t">>          \* n.txt   (unsupported extension)
NameDir == <<"d", ".", "m", "p", "3">>          \* d.mp3   (a directory)

NameA1  == <<"a", "_", "1", ".", "m", "p", "3">>   \* a_1.mp3 (the first collision name of a.mp3)

\* The entries a user can put into the input directory.
Names == {NameA, NameB, NameTmp, NameTxt, NameDir}

\* Every entry that is in the input directory in some specification.
AllNames == Names \cup {NameA1}

\* The entries of Names that are directories.
DirNames == {NameDir}

\* str.lower() on one character (the letters that occur in Names).
LowerChar(c) ==
    CASE c = "A" -> "a"
      [] c = "V" -> "v"
      [] c = "W" -> "w"
      [] c = "M" -> "m"
      [] c = "P" -> "p"
      [] OTHER   -> c

\* str.lower()
Lower(s) == [i \in 1..Len(s) |-> LowerChar(s[i])]

\* str.rfind("."), 1-based; 0 when the name has no dot.
RFindDot(s) ==
    LET dots == {i \in 1..Len(s) : s[i] = "."}
    IN  IF dots = {} THEN 0 ELSE CHOOSE i \in dots : \A j \in dots : j <= i

\* pathlib's PurePath.suffix: the last dot-component, none for a leading or
\* a trailing dot.
Suffix(s) ==
    LET i == RFindDot(s)
    IN  IF 1 < i /\ i < Len(s) THEN SubSeq(s, i, Len(s)) ELSE <<>>

\* pathlib's PurePath.stem
Stem(s) ==
    LET i == RFindDot(s)
    IN  IF 1 < i /\ i < Len(s) THEN SubSeq(s, 1, i - 1) ELSE s

\* AudioTranscriber.SUPPORTED_EXTENSIONS
SUPPORTED_EXTENSIONS ==
    { <<".", "m", "p", "3">>, <<".", "w", "a", "v">>, <<".", "m", "4", "a">>,
      <<".", "f", "l", "a", "c">>, <<".", "a", "a", "c">>, <<".", "o", "g", "g">>,
      <<".", "w", "e", "b", "m">> }

\* AudioTranscriber.is_supported_file
is_supported_file(name) == Lower(Suffix(name)) \in SUPPORTED_EXTENSIONS

\* The temporary-file test of AudioFileHandler._handle_file_event.
IsTemporaryName(name) == Len(name) > 0 /\ (name[1] = "." \/ name[1] = "~")

\* output_dir / f"{file_path.stem}.txt": the name of the transcript.
OutputName(name) == Stem(name) \o <<".", "t", "x", "t">>


\* str(counter) for the counters the relocation loop reaches.
RECURSIVE IntToStr(_)
IntToStr(n) ==
    LET digit == <<"0", "1", "2", "3", "4", "5", "6", "7", "8", "9">>
    IN  IF n < 10 THEN <<digit[n + 1]>>
        ELSE IntToStr(n \div 10) \o <<digit[(n % 10) + 1]>>

\* The while loop of _move_to_done: the first "<stem>_<counter><suffix>"
\* that is free in the done directory.
RECURSIVE NextFreeDoneName(_, _, _)
NextFreeDoneName(name, done, counter) ==
    LET cand == Stem(name) \o <<"_">> \o IntToStr(counter) \o Suffix(name)
    IN  IF cand \in done THEN NextFreeDoneName(name, done, counter + 1) ELSE cand

\* done_path as _move_to_done computes it.
DonePath(name, done) ==
    IF name \in done THEN NextFreeDoneName(name, done, 1) ELSE name

(***************************************************************************)
(* Bounds of the model and constants of the program.                       *)
(***************************************************************************)
\* How many entries the user creates in the input directory.
MaxFiles == 1
\* How many times _process_file is called in a behaviour.
MaxCalls == 2
\* How many times the clock advances.
MaxTicks == 1
\* How many records the sequential run of _record_processed_file appends.
MaxRecords == 1100
\* The window of _is_recently_processed, in seconds.
RECENT_SECONDS == 3600
\* The ledger keeps this many records.
MAX_PROCESSED == 1000
\* One advance of the clock: the length of the recency window.
TickSeconds == RECENT_SECONDS
\* The file sizes stat() can report are 0..MaxSize.
MaxSize == 2
\* A round of the stability loop takes up to this many seconds more than
\* its sleep.
MaxLag == 1
\* max_wait of _wait_for_file_stability, in seconds.
MAX_WAIT == 30
\* The stable_count at which _wait_for_file_stability stops.
STABLE_CHECKS == 3
\* time.sleep(1) in _wait_for_file_stability.
SLEEP_SECONDS == 1
\* The default of max_retries.
DEFAULT_MAX_RETRIES == 3
\* max_retries is one of 1..MaxRetries.
MaxRetries == 3
\* sys.exit(1)
EXIT_FAILURE == 1
\* The signals delivered to the process.
MaxSignals == 2
\* The calls of start, stop and run made by the program using the service.
MaxApiCalls == 3
\* The records of the ledgers the queries are made of.
MaxLedgerLen == 3
\* The queries made of one ledger.
MaxQueries == 2

Threads == {"event", "poll", "sweep"}

NoName == <<>>
NoExc == "none"
\* transcript.text is None; no text returned.
NoText == "None"

\* What a call of transcribe_and_save can do once the file checks passed:
\* return, fail in transcribe_file after the retries, or fail in
\* save_transcript after open() created the output file.
TranscribeOutcomes == {"ok", "transcribe_error", "save_error"}

VARIABLES
    inputDir,               \* entries of input_dir
    outputDir,              \* files of output_dir
    doneDir,                \* files of done_dir
    events,                 \* paths with an undelivered watchdog event
    created,                \* entries the user has created so far
    clock,                  \* time.time()
    calls,                  \* _process_file calls made so far
    currently_processing,   \* FolderMonitor._currently_processing
    processed_files,        \* FolderMonitor.processed_files
    processing_files,       \* AudioFileHandler.processing_files
    pc,                     \* where each thread is
    cur,                    \* file_path of the thread's call
    pid,                    \* processing_id of the thread's call
    status,                 \* how the thread's call went so far
    done_path,              \* done_path of the thread's _move_to_done
    exc,                    \* the exception the thread is raising
    todo,                   \* what is left of the thread's directory listing
    att,                    \* what the thread's call has done so far
    txCalls,                \* transcribe_and_save calls made per path
    detections,             \* per path, the threads that called _process_file
    overlap,                \* per path, whether two detections overlapped
    sliced,                 \* per thread, self.processed_files[-1000:] before it is stored
    last_size,              \* per thread, last_size of its _wait_for_file_stability
    stable_count,           \* per thread, stable_count of its _wait_for_file_stability
    waited,                 \* per thread, time.time() - start_time
    samples,                \* per thread, the stat() calls its wait has made
    readings,               \* per thread, the initial last_size and the sizes read (the last four)
    stat_exc,               \* per thread, the exception of its wait's last stat()
    max_retries,            \* AudioTranscriber.max_retries
    attempt,                \* per thread, attempt of its transcribe_file
    transcript,             \* per thread, what its transcribe_file returned
    remote_calls,           \* per thread, the transcriber.transcribe calls of its transcribe_file
    failures,               \* per thread, how many of them failed
    sleeps,                 \* per thread, the time.sleep(retry_delay) calls of its transcribe_file
    remote_text,            \* per thread, transcript.text of its last remote call
    stop_event,             \* FolderMonitor._stop_event
    observer_stopped,       \* observer.stop() was called
    svc_pc,                 \* where the main thread is in TranscriptService
    running,                \* TranscriptService.running
    config_state,           \* how load_config and setup_logging went
    exit_status,            \* the argument of sys.exit
    monitor,                \* TranscriptService.monitor
    transcribers_created,   \* AudioTranscriber objects constructed
    monitors_created,       \* FolderMonitor objects constructed
    monitor_starts,         \* FolderMonitor.start calls
    monitor_stops,          \* FolderMonitor.stop calls
    start_calls,            \* TranscriptService.start calls
    stop_calls,             \* TranscriptService.stop calls
    api_calls,              \* calls of start, stop and run by the program using the service
    handlers_installed,     \* signal.signal(...) was called
    signals,                \* signals handled
    signalled_running,      \* a signal was handled with running == True
    query,                  \* the last query made of the monitor
    stats,                  \* what get_statistics returned last
    recent,                 \* what get_recent_files returned last
    hours,                  \* the argument of that get_recent_files call
    queries                 \* queries made so far

fsVars == <<inputDir, outputDir, doneDir>>
envVars == <<events, created, clock>>
sharedVars == <<currently_processing, processed_files, processing_files>>
localVars == <<pc, cur, pid, status, done_path, exc, todo, att>>
histVars == <<calls, txCalls, detections, overlap>>
\* The locals of the calls that the main specification takes in one step.
recVars == <<sliced>>
waitVars == <<last_size, stable_count, waited, samples, readings, stat_exc>>
retryVars == <<max_retries, attempt, transcript, remote_calls, failures, sleeps, remote_text>>
stopVars == <<stop_event, observer_stopped>>
svcVars == <<svc_pc, running, config_state, exit_status, monitor,
             transcribers_created, monitors_created, monitor_starts,
             monitor_stops, start_calls, stop_calls, api_calls,
             handlers_installed, signals, signalled_running>>
queryVars == <<query, stats, recent, hours, queries>>
\* What the monitor's steps never touch.
restVars == <<svcVars, queryVars>>
unitVars == <<recVars, waitVars, retryVars, stopVars, restVars>>
vars == <<fsVars, envVars, sharedVars, localVars, histVars, unitVars>>

\* The success ratio n / d.
Ratio(n, d) == [num |-> n, den |-> d]

\* No query was made yet.
NoQuery ==
    /\ query = "none"
    /\ stats = [total_processed |-> 0, successful |-> 0, errors |-> 0,
                skipped |-> 0, success_rate |-> Ratio(0, 1),
                is_monitoring |-> FALSE]
    /\ recent = <<>>
    /\ hours = 0
    /\ queries = 0

\* The service while the main thread is inside TranscriptService.start, at
\* self.monitor.start(): the configuration is loaded, the transcriber and the
\* monitor are constructed, running is still False.
ServiceStarting ==
    /\ svc_pc = "run_start"
    /\ running = FALSE
    /\ config_state = "ok"
    /\ exit_status = 0
    /\ monitor = "created"
    /\ transcribers_created = 1
    /\ monitors_created = 1
    /\ monitor_starts = 1
    /\ monitor_stops = 0
    /\ start_calls = 1
    /\ stop_calls = 0
    /\ api_calls = 1
    /\ handlers_installed = TRUE
    /\ signals = 0
    /\ signalled_running = FALSE
    /\ NoQuery

\* The service after TranscriptService.start has returned to the program
\* using it, which then calls stop.
ServiceStarted ==
    /\ svc_pc = "idle"
    /\ running = TRUE
    /\ config_state = "ok"
    /\ exit_status = 0
    /\ monitor = "started"
    /\ transcribers_created = 1
    /\ monitors_created = 1
    /\ monitor_starts = 1
    /\ monitor_stops = 0
    /\ start_calls = 1
    /\ stop_calls = 0
    /\ api_calls = 1
    /\ handlers_installed = FALSE
    /\ signals = 0
    /\ signalled_running = FALSE
    /\ NoQuery

\* Nothing done yet: no stability wait, no transcribe_and_save call, no
\* _move_to_done call, no rename; and what the call met: the path registered
\* already, the source missing, the transcript present, an exception of
\* transcribe_and_save.
NoAttempt == [waits |-> 0, tx |-> 0, moves |-> 0, renames |-> 0,
              duplicate |-> FALSE, missing |-> FALSE, hadOutput |-> FALSE,
              raised |-> NoExc]

\* The positions inside _process_file after the registration and up to the
\* pop of the finally clause.
BodyPcs == {"exists", "outcheck", "transcribe", "move", "rename",
            "record", "except", "cleanup"}
\* The positions of a _process_file call.
CallPcs == BodyPcs \cup {"enter", "ret"}

\* Path.is_file() on an entry of the input directory.
is_file(name) == name \in inputDir /\ name \notin DirNames

\* A faulty variant of path_exists: the existence test left out.
path_exists_Always(name) == TRUE

\* Path.exists() on an entry of the input directory.
path_exists(name) == name \in inputDir

\* Every thread before its first step, nothing registered, no event pending,
\* no call made.
InitIdle ==
    /\ events = {}
    /\ created = 0
    /\ clock = 0
    /\ calls = 0
    /\ currently_processing = [k \in {} |-> 0]
    /\ processing_files = {}
    /\ pc = [t \in Threads |->
               CASE t = "event" -> "idle"
                 [] t = "poll"  -> "poll_wait"
                 [] t = "sweep" -> "sweep_list"]
    /\ cur = [t \in Threads |-> NoName]
    /\ pid = [t \in Threads |-> 0]
    /\ status = [t \in Threads |-> "none"]
    /\ done_path = [t \in Threads |-> NoName]
    /\ exc = [t \in Threads |-> NoExc]
    /\ todo = [t \in Threads |-> {}]
    /\ att = [t \in Threads |-> NoAttempt]
    /\ overlap = [p \in AllNames |-> FALSE]
    /\ sliced = [t \in Threads |-> <<>>]
    /\ last_size = [t \in Threads |-> 0]
    /\ stable_count = [t \in Threads |-> 0]
    /\ waited = [t \in Threads |-> 0]
    /\ samples = [t \in Threads |-> 0]
    /\ readings = [t \in Threads |-> <<>>]
    /\ stat_exc = [t \in Threads |-> NoExc]
    /\ attempt = [t \in Threads |-> 0]
    /\ transcript = [t \in Threads |-> NoText]
    /\ remote_calls = [t \in Threads |-> 0]
    /\ failures = [t \in Threads |-> 0]
    /\ sleeps = [t \in Threads |-> 0]
    /\ remote_text = [t \in Threads |-> NoText]
    /\ stop_event = FALSE
    /\ observer_stopped = FALSE
    /\ ServiceStarting

\* FolderMonitor.__init__ and start() on three new, empty directories.
Init ==
    /\ inputDir = {}
    /\ outputDir = {}
    /\ doneDir = {}
    /\ processed_files = <<>>
    /\ txCalls = [p \in AllNames |-> 0]
    /\ detections = [p \in AllNames |-> <<>>]
    /\ max_retries = DEFAULT_MAX_RETRIES
    /\ InitIdle


(***************************************************************************)
(* The ledger.                                                             *)
(***************************************************************************)
\* ProcessedFile(...)
ProcessedFile(path, now, st, msg, id) ==
    [path |-> path, processed_at |-> now, status |-> st,
     error_message |-> msg, processing_id |-> id]

\* A faulty variant of RecordProcessedFile: the slice taken from the front,
\* [:1000] for [-1000:], so that the newest records are dropped.
RecordProcessedFile_KeepOldest(ledger, rec) ==
    LET l == Append(ledger, rec)
    IN  IF Len(l) > MAX_PROCESSED THEN SubSeq(l, 1, MAX_PROCESSED) ELSE l

\* _record_processed_file: append, then keep the last MAX_PROCESSED records.
RecordProcessedFile(ledger, rec) ==
    LET l == Append(ledger, rec)
    IN  IF Len(l) > MAX_PROCESSED
        THEN SubSeq(l, Len(l) - MAX_PROCESSED + 1, Len(l))
        ELSE l

\* A faulty variant of IsRecentlyProcessed: any record of the path counts,
\* however old.
IsRecentlyProcessed_Ever(ledger, path, now) ==
    \E i \in 1..Len(ledger) : ledger[i].path = path

\* _is_recently_processed
IsRecentlyProcessed(ledger, path, now) ==
    \E i \in 1..Len(ledger) :
        /\ ledger[i].path = path
        /\ ledger[i].processed_at > now - RECENT_SECONDS

(***************************************************************************)
(* The in-flight registry.                                                 *)
(***************************************************************************)
\* A faulty variant of CheckAndRegister: the insert without the check.
CheckAndRegister_NoCheck(reg, key, id) ==
    [accepted |-> TRUE,
     registry |-> [k \in DOMAIN reg \cup {key} |-> IF k = key THEN id ELSE reg[k]]]

\* A faulty variant of CheckAndRegister: the insert placed before the check,
\* so that a rejected call still overwrites the entry.
CheckAndRegister_Overwrite(reg, key, id) ==
    [accepted |-> key \notin DOMAIN reg,
     registry |-> [k \in DOMAIN reg \cup {key} |-> IF k = key THEN id ELSE reg[k]]]

\* The critical section of _process_file: whether the call goes on, and the
\* registry it leaves.
CheckAndRegister(reg, key, id) ==
    IF key \in DOMAIN reg
    THEN [accepted |-> FALSE, registry |-> reg]
    ELSE [accepted |-> TRUE,
          registry |-> [k \in DOMAIN reg \cup {key} |->
                           IF k = key THEN id ELSE reg[k]]]

\* A faulty variant of PopRegistry: the entry is left in place.
PopRegistry_Keep(reg, key) == reg

\* self._currently_processing.pop(file_key, None)
PopRegistry(reg, key) == [k \in DOMAIN reg \ {key} |-> reg[k]]

(***************************************************************************)
(* The environment: the user and the clock.                                *)
(***************************************************************************)
\* The user puts an entry into the input directory and the watcher queues an
\* event for it.  Nothing obliges the observer thread to take the event, so
\* the behaviours include those in which it is never delivered.
UserCreates ==
    \E p \in Names \ inputDir :
        /\ created < MaxFiles
        /\ created' = created + 1
        /\ inputDir' = inputDir \cup {p}
        /\ events' = events \cup {p}
        /\ UNCHANGED <<outputDir, doneDir, clock, sharedVars, localVars, histVars, unitVars>>

\* Time passes.
Tick ==
    /\ clock < MaxTicks * TickSeconds
    /\ clock' = clock + TickSeconds
    /\ UNCHANGED <<fsVars, events, created, sharedVars, localVars, histVars, unitVars>>

(***************************************************************************)
(* A call of _process_file(p) by thread t begins: the processing id is     *)
(* drawn (ids are the call numbers, so no two calls share one).            *)
(***************************************************************************)
StartCall(t, p) ==
    /\ calls < MaxCalls
    /\ calls' = calls + 1
    /\ pc' = [pc EXCEPT ![t] = "enter"]
    /\ cur' = [cur EXCEPT ![t] = p]
    /\ pid' = [pid EXCEPT ![t] = calls + 1]
    /\ detections' = [detections EXCEPT ![p] = Append(@, t)]
    /\ overlap' = [overlap EXCEPT ![p] =
                     @ \/ \E u \in Threads \ {t} : cur[u] = p /\ pc[u] \in CallPcs]
    /\ UNCHANGED <<status, done_path, exc, att, txCalls, unitVars>>

(***************************************************************************)
(* The event-driven path: AudioFileHandler.                                *)
(***************************************************************************)
\* Whether on_created / on_modified and _handle_file_event let an event
\* through to the callback.
EventQualifies(p, is_directory) ==
    /\ ~is_directory
    /\ p \notin processing_files
    /\ is_supported_file(p)
    /\ ~IsTemporaryName(p)

\* The observer thread takes an event and runs the handler up to the
\* callback.
HandleFileEvent(p) ==
    /\ pc["event"] = "idle"
    /\ ~observer_stopped
    /\ p \in events
    /\ events' = events \ {p}
    /\ IF EventQualifies(p, p \in DirNames)
       THEN /\ processing_files' = processing_files \cup {p}
            /\ StartCall("event", p)
            /\ UNCHANGED <<fsVars, created, clock, currently_processing,
                           processed_files, todo>>
       ELSE UNCHANGED <<fsVars, created, clock, sharedVars, localVars, histVars, unitVars>>

\* on_created / on_modified for some pending event.
OnFileEvent == \E p \in Names : HandleFileEvent(p)


(***************************************************************************)
(* The periodic poll: _poll_directory.                                     *)
(***************************************************************************)
\* The poll wait ends, the stop event is not set, and input_dir.iterdir()
\* lists the directory.
PollList ==
    /\ pc["poll"] = "poll_wait"
    /\ ~stop_event
    /\ pc' = [pc EXCEPT !["poll"] = "poll_iter"]
    /\ todo' = [todo EXCEPT !["poll"] = inputDir]
    /\ UNCHANGED <<fsVars, envVars, sharedVars, cur, pid, status, done_path,
                   exc, att, histVars, unitVars>>

\* A faulty variant of PollCandidate: is_file() left out.
PollCandidate_NoIsFile(p) == p \in inputDir /\ is_supported_file(p)

\* The first two conjuncts of the poll loop's condition.
PollCandidate(p) == is_file(p) /\ is_supported_file(p)

\* The loop takes the next listed entry and tests is_file and
\* is_supported_file.
PollNext ==
    /\ pc["poll"] = "poll_iter"
    /\ \E p \in todo["poll"] :
        /\ todo' = [todo EXCEPT !["poll"] = @ \ {p}]
        /\ IF PollCandidate(p)
           THEN /\ pc' = [pc EXCEPT !["poll"] = "poll_recent"]
                /\ cur' = [cur EXCEPT !["poll"] = p]
           ELSE UNCHANGED <<pc, cur>>
    /\ UNCHANGED <<fsVars, envVars, sharedVars, pid, status, done_path, exc,
                   att, histVars, unitVars>>

\* The last conjunct, not self._is_recently_processed(file_path), and the
\* call of _process_file when it holds.
PollRecent ==
    /\ pc["poll"] = "poll_recent"
    /\ IF ~IsRecentlyProcessed(processed_files, cur["poll"], clock)
       THEN /\ StartCall("poll", cur["poll"])
            /\ UNCHANGED <<fsVars, envVars, sharedVars, todo>>
       ELSE /\ pc' = [pc EXCEPT !["poll"] = "poll_iter"]
            /\ cur' = [cur EXCEPT !["poll"] = NoName]
            /\ UNCHANGED <<fsVars, envVars, sharedVars, pid, status, done_path,
                           exc, todo, att, histVars, unitVars>>

\* The listing is exhausted: self._stop_event.wait(self.poll_interval).
PollWait ==
    /\ pc["poll"] = "poll_iter"
    /\ todo["poll"] = {}
    /\ pc' = [pc EXCEPT !["poll"] = "poll_wait"]
    /\ UNCHANGED <<fsVars, envVars, sharedVars, cur, pid, status, done_path,
                   exc, todo, att, histVars, unitVars>>

(***************************************************************************)
(* The startup sweep: _process_existing_files.                             *)
(***************************************************************************)
\* The condition under which the sweep keeps a listed entry.
SweepCandidate(p) == is_file(p) /\ is_supported_file(p)

\* The first loop: existing_files.
SweepList ==
    /\ pc["sweep"] = "sweep_list"
    /\ pc' = [pc EXCEPT !["sweep"] = "sweep_iter"]
    /\ todo' = [todo EXCEPT !["sweep"] = {p \in inputDir : SweepCandidate(p)}]
    /\ UNCHANGED <<fsVars, envVars, sharedVars, cur, pid, status, done_path,
                   exc, att, histVars, unitVars>>

\* The second loop calls _process_file for the next file of existing_files.
SweepNext ==
    /\ pc["sweep"] = "sweep_iter"
    /\ \E p \in todo["sweep"] :
        /\ todo' = [todo EXCEPT !["sweep"] = @ \ {p}]
        /\ StartCall("sweep", p)
    /\ UNCHANGED <<fsVars, envVars, sharedVars>>

\* existing_files is exhausted: _process_existing_files and start return.
SweepEnd ==
    /\ pc["sweep"] = "sweep_iter"
    /\ todo["sweep"] = {}
    /\ pc' = [pc EXCEPT !["sweep"] = "sweep_done"]
    /\ UNCHANGED <<fsVars, envVars, sharedVars, cur, pid, status, done_path,
                   exc, todo, att, histVars, unitVars>>


(***************************************************************************)
(* The per-file pipeline: _process_file, one action per step that reads or *)
(* writes shared state.                                                    *)
(***************************************************************************)
Goto(t, l) == pc' = [pc EXCEPT ![t] = l]

\* with self._processing_lock: check, then insert or return.
Enter(t) ==
    LET r == CheckAndRegister(currently_processing, cur[t], pid[t])
    IN  /\ pc[t] = "enter"
        /\ currently_processing' = r.registry
        /\ att' = [att EXCEPT ![t].duplicate = cur[t] \in DOMAIN currently_processing]
        /\ IF r.accepted
           THEN Goto(t, "exists") /\ UNCHANGED status
           ELSE Goto(t, "ret") /\ status' = [status EXCEPT ![t] = "duplicate"]
        /\ UNCHANGED <<fsVars, envVars, processed_files, processing_files, cur,
                       pid, done_path, exc, todo, histVars, unitVars>>

\* if not file_path.exists(): return; else
\* self._wait_for_file_stability(file_path), which returns in every case and
\* reads and writes nothing another thread sees.
CheckExists(t) ==
    /\ pc[t] = "exists"
    /\ IF path_exists(cur[t])
       THEN /\ att' = [att EXCEPT ![t].missing = cur[t] \notin inputDir,
                                  ![t].waits = @ + 1]
            /\ Goto(t, "outcheck")
            /\ UNCHANGED status
       ELSE /\ att' = [att EXCEPT ![t].missing = cur[t] \notin inputDir]
            /\ Goto(t, "cleanup")
            /\ status' = [status EXCEPT ![t] = "missing"]
    /\ UNCHANGED <<fsVars, envVars, sharedVars, cur, pid, done_path, exc, todo,
                   histVars, unitVars>>

\* A faulty variant of OutputExists: the source's name is looked up in the
\* output directory instead of "<stem>.txt".
OutputExists_ByName(name) == name \in outputDir

\* output_path.exists()
OutputExists(name) == OutputName(name) \in outputDir

\* if output_path.exists(): the skipped branch, else the transcription.
CheckOutput(t) ==
    /\ pc[t] = "outcheck"
    /\ att' = [att EXCEPT ![t].hadOutput =
                  (Stem(cur[t]) \o <<".", "t", "x", "t">>) \in outputDir]
    /\ IF OutputExists(cur[t])
       THEN Goto(t, "move") /\ status' = [status EXCEPT ![t] = "skipped"]
       ELSE Goto(t, "transcribe") /\ UNCHANGED status
    /\ UNCHANGED <<fsVars, envVars, sharedVars, cur, pid, done_path, exc, todo,
                   histVars, unitVars>>

\* transcribe_and_save(input_path, output_path): the exception it raises
\* (NoExc when it returns) and the output directory it leaves.  A failure of
\* save_transcript before open() has created the file leaves what
\* "transcribe_error" leaves.
TranscribeAndSave(name, outcome) ==
    IF ~path_exists(name)
    THEN [error |-> "Audio file does not exist", output |-> outputDir]
    ELSE IF ~is_supported_file(name)
    THEN [error |-> "Unsupported file format", output |-> outputDir]
    ELSE CASE outcome = "ok" ->
                [error |-> NoExc, output |-> outputDir \cup {OutputName(name)}]
           [] outcome = "transcribe_error" ->
                [error |-> "Transcription failed after retries", output |-> outputDir]
           [] outcome = "save_error" ->
                [error |-> "Failed to save transcript",
                 output |-> outputDir \cup {OutputName(name)}]

\* self.transcriber.transcribe_and_save(file_path, output_path)
Transcribe(t) ==
    /\ pc[t] = "transcribe"
    /\ \E outcome \in TranscribeOutcomes :
        LET r == TranscribeAndSave(cur[t], outcome)
        IN  /\ outputDir' = r.output
            /\ exc' = [exc EXCEPT ![t] = r.error]
            /\ att' = [att EXCEPT ![t].tx = @ + 1, ![t].raised = r.error]
            /\ IF r.error = NoExc
               THEN Goto(t, "move") /\ status' = [status EXCEPT ![t] = "success"]
               ELSE Goto(t, "except") /\ UNCHANGED status
    /\ txCalls' = [txCalls EXCEPT ![cur[t]] = @ + 1]
    /\ UNCHANGED <<inputDir, doneDir, envVars, sharedVars, cur, pid, done_path,
                   todo, calls, detections, overlap, unitVars>>

\* _move_to_done up to the rename: return when the source is gone, else
\* find done_path.  (The entries of done_dir only grow, so the probes of the
\* while loop see what one probe of all names at the time of the last sees.)
MoveToDone(t) ==
    /\ pc[t] = "move"
    /\ att' = [att EXCEPT ![t].moves = @ + 1]
    /\ IF path_exists(cur[t])
       THEN /\ done_path' = [done_path EXCEPT ![t] = DonePath(cur[t], doneDir)]
            /\ Goto(t, "rename")
       ELSE /\ UNCHANGED done_path
            /\ Goto(t, "record")
    /\ UNCHANGED <<fsVars, envVars, sharedVars, cur, pid, status, exc, todo,
                   histVars, unitVars>>

\* A faulty variant of MoveErrorLeaving: the except clauses re-raise.
MoveErrorLeaving_Reraise(e) == e

\* except FileNotFoundError / except Exception in _move_to_done: the
\* exception that leaves _move_to_done when the rename raised e.
MoveErrorLeaving(e) == NoExc

\* file_path.rename(done_path): it moves the file (onto done_path, whatever
\* is there by now), or raises and _move_to_done handles the exception; the
\* caller goes on to its record unless an exception reaches it.
Rename(t) ==
    /\ pc[t] = "rename"
    /\ att' = [att EXCEPT ![t].renames = @ + 1]
    /\ \E ok \in BOOLEAN :
        LET moved == ok /\ cur[t] \in inputDir
            e == MoveErrorLeaving(IF moved THEN NoExc ELSE "rename failed")
        IN  /\ IF moved
               THEN /\ inputDir' = inputDir \ {cur[t]}
                    /\ doneDir' = doneDir \cup {done_path[t]}
               ELSE UNCHANGED <<inputDir, doneDir>>
            /\ exc' = [exc EXCEPT ![t] = e]
            /\ Goto(t, IF e = NoExc THEN "record" ELSE "except")
    /\ UNCHANGED <<outputDir, envVars, sharedVars, cur, pid, status, done_path,
                   todo, histVars, unitVars>>

\* The record of the skipped and of the success branch.
OutcomeRecord(path, now, st, id) ==
    ProcessedFile(path, now, st,
                  IF st = "skipped" THEN "Transcript already exists" ELSE "None", id)

\* A faulty variant of Record: the entry of the registry is popped in the
\* step that appends the record.
Record_Unregistered(t) ==
    /\ pc[t] = "record"
    /\ processed_files' = RecordProcessedFile(processed_files,
                              OutcomeRecord(cur[t], clock, status[t], pid[t]))
    /\ currently_processing' = PopRegistry(currently_processing, cur[t])
    /\ Goto(t, "cleanup")
    /\ UNCHANGED <<fsVars, envVars, processing_files, cur,
                   pid, status, done_path, exc, todo, att, histVars, unitVars>>

\* self._record_processed_file(file_path, "skipped" | "success", ...)
Record(t) ==
    /\ pc[t] = "record"
    /\ processed_files' = RecordProcessedFile(processed_files,
                              OutcomeRecord(cur[t], clock, status[t], pid[t]))
    /\ Goto(t, "cleanup")
    /\ UNCHANGED <<fsVars, envVars, currently_processing, processing_files, cur,
                   pid, status, done_path, exc, todo, att, histVars, unitVars>>

\* A faulty variant of ErrorRecord: the failure detail is dropped.
ErrorRecord_NoMessage(path, now, e, id) == ProcessedFile(path, now, "error", "None", id)

\* The record of the except clause.
ErrorRecord(path, now, e, id) == ProcessedFile(path, now, "error", e, id)

\* A faulty variant of HandleException: the except clause records the error
\* and raises it again.
HandleException_Reraise(t) ==
    /\ pc[t] = "except"
    /\ processed_files' = RecordProcessedFile(processed_files,
                              ErrorRecord(cur[t], clock, exc[t], pid[t]))
    /\ status' = [status EXCEPT ![t] = "error"]
    /\ Goto(t, "cleanup")
    /\ UNCHANGED <<fsVars, envVars, currently_processing, processing_files, cur,
                   pid, done_path, exc, todo, att, histVars, unitVars>>

\* A faulty variant of HandleException: the except clause swallows the
\* exception and records nothing.
HandleException_Silent(t) ==
    /\ pc[t] = "except"
    /\ exc' = [exc EXCEPT ![t] = NoExc]
    /\ status' = [status EXCEPT ![t] = "error"]
    /\ Goto(t, "cleanup")
    /\ UNCHANGED <<fsVars, envVars, sharedVars, cur,
                   pid, done_path, todo, att, histVars, unitVars>>

\* except Exception as e: self._record_processed_file(file_path, "error", str(e), ...)
HandleException(t) ==
    /\ pc[t] = "except"
    /\ processed_files' = RecordProcessedFile(processed_files,
                              ErrorRecord(cur[t], clock, exc[t], pid[t]))
    /\ exc' = [exc EXCEPT ![t] = NoExc]
    /\ status' = [status EXCEPT ![t] = "error"]
    /\ Goto(t, "cleanup")
    /\ UNCHANGED <<fsVars, envVars, currently_processing, processing_files, cur,
                   pid, done_path, todo, att, histVars, unitVars>>

\* finally: with self._processing_lock: self._currently_processing.pop(file_key, None)
Cleanup(t) ==
    /\ pc[t] = "cleanup"
    /\ currently_processing' = PopRegistry(currently_processing, cur[t])
    /\ Goto(t, "ret")
    /\ UNCHANGED <<fsVars, envVars, processed_files, processing_files, cur, pid,
                   status, done_path, exc, todo, att, histVars, unitVars>>

\* Where the caller goes on after the call: the handler's finally clause and
\* the next event, the next entry of the poll listing, the next file of
\* existing_files.  An exception leaving _process_file ends the observer
\* thread's dispatch and the sweep, and the poll loop's except clause
\* abandons the listing.
AfterCall(t, raised) ==
    CASE t = "event" -> IF raised THEN "event_failed" ELSE "idle"
      [] t = "poll"  -> IF raised THEN "poll_wait" ELSE "poll_iter"
      [] t = "sweep" -> IF raised THEN "sweep_failed" ELSE "sweep_iter"

\* _process_file returns to its caller.
Return(t) ==
    /\ pc[t] = "ret"
    /\ Goto(t, AfterCall(t, exc[t] # NoExc))
    /\ processing_files' = IF t = "event" THEN processing_files \ {cur[t]}
                           ELSE processing_files
    /\ todo' = IF t = "poll" /\ exc[t] # NoExc THEN [todo EXCEPT ![t] = {}] ELSE todo
    /\ cur' = [cur EXCEPT ![t] = NoName]
    /\ pid' = [pid EXCEPT ![t] = 0]
    /\ status' = [status EXCEPT ![t] = "none"]
    /\ done_path' = [done_path EXCEPT ![t] = NoName]
    /\ exc' = [exc EXCEPT ![t] = NoExc]
    /\ att' = [att EXCEPT ![t] = NoAttempt]
    /\ UNCHANGED <<fsVars, envVars, currently_processing, processed_files, histVars, unitVars>>

ProcessFile == \E t \in Threads :
    \/ Enter(t)
    \/ CheckExists(t)
    \/ CheckOutput(t)
    \/ Transcribe(t)
    \/ MoveToDone(t)
    \/ Rename(t)
    \/ Record(t)
    \/ HandleException(t)
    \/ Cleanup(t)
    \/ Return(t)

Next ==
    \/ UserCreates
    \/ Tick
    \/ OnFileEvent
    \/ PollList
    \/ PollNext
    \/ PollRecent
    \/ PollWait
    \/ SweepList
    \/ SweepNext
    \/ SweepEnd
    \/ ProcessFile

Spec == Init /\ [][Next]_vars

(***************************************************************************)
(* The ledger on its own: _record_processed_file called again and again by *)
(* one caller, as test_processed_files_limit calls it.  The n-th call      *)
(* records the path, the status and the message that n selects, with n as  *)
(* its processing id.                                                      *)
(***************************************************************************)
\* The arguments of the n-th call.
SequentialRecord(n, now) ==
    LET st == CASE n % 3 = 0 -> "success"
                [] n % 3 = 1 -> "error"
                [] OTHER     -> "skipped"
    IN  ProcessedFile(IF n % 2 = 0 THEN NameA ELSE NameB, now, st,
                      IF st = "error" THEN "Transcription failed after retries"
                      ELSE IF st = "skipped" THEN "Transcript already exists"
                      ELSE "None", n)

\* monitor._record_processed_file(...), the next call of the run.
RecordNext ==
    /\ calls < MaxRecords
    /\ calls' = calls + 1
    /\ processed_files' = RecordProcessedFile(processed_files,
                              SequentialRecord(calls + 1, clock))
    /\ UNCHANGED <<fsVars, envVars, currently_processing, processing_files,
                   localVars, txCalls, detections, overlap, unitVars>>

NextLedger == RecordNext

SpecLedger == Init /\ [][NextLedger]_vars

(***************************************************************************)
(* The ledger under concurrent callers.  _record_processed_file takes no   *)
(* lock: the append, the test of the length, the slice and the store of    *)
(* the slice are separate steps of the calling thread, and the poller's    *)
(* recency check reads the list between any two of them.  The monitor has  *)
(* recorded 1000 files an hour ago; two more files are in the input        *)
(* directory when the poll loop lists it and the startup sweep of a        *)
(* restart of the monitoring runs.                                         *)
(***************************************************************************)
\* The files in the input directory.
RaceNames == {NameA, NameB}

\* The ledger after MAX_PROCESSED calls of earlier attempts, whose
\* processing ids are not those of the calls to come.
FullLedger ==
    [i \in 1..MAX_PROCESSED |->
        [SequentialRecord(i, 0) EXCEPT !.processing_id = i - MAX_PROCESSED]]

InitLedgerRace ==
    /\ inputDir = RaceNames
    /\ outputDir = {}
    /\ doneDir = {}
    /\ processed_files = FullLedger
    /\ txCalls = [p \in AllNames |-> 0]
    /\ detections = [p \in AllNames |-> <<>>]
    /\ max_retries = DEFAULT_MAX_RETRIES
    /\ InitIdle

\* An hour passes after the earlier records were made.
LedgerTick ==
    /\ clock < RECENT_SECONDS
    /\ clock' = clock + RECENT_SECONDS
    /\ UNCHANGED <<fsVars, events, created, sharedVars, localVars, histVars, unitVars>>

\* ProcessedFile(...) and self.processed_files.append(processed_file), in
\* the skipped and success branches and in the except clause.
RecordAppend(t) ==
    /\ pc[t] \in {"record", "except"}
    /\ processed_files' =
          Append(processed_files,
                 IF pc[t] = "record"
                 THEN OutcomeRecord(cur[t], clock, status[t], pid[t])
                 ELSE ErrorRecord(cur[t], clock, exc[t], pid[t]))
    /\ exc' = [exc EXCEPT ![t] = NoExc]
    /\ status' = [status EXCEPT ![t] = IF pc[t] = "except" THEN "error" ELSE @]
    /\ Goto(t, "rec_len")
    /\ UNCHANGED <<fsVars, envVars, currently_processing, processing_files, cur,
                   pid, done_path, todo, att, histVars, unitVars>>

\* if len(self.processed_files) > 1000:
RecordLen(t) ==
    /\ pc[t] = "rec_len"
    /\ Goto(t, IF Len(processed_files) > MAX_PROCESSED THEN "rec_slice" ELSE "cleanup")
    /\ UNCHANGED <<fsVars, envVars, sharedVars, cur, pid, status, done_path, exc,
                   todo, att, histVars, unitVars>>

\* self.processed_files[-1000:], the right-hand side of the assignment.
LastRecords(ledger) ==
    IF Len(ledger) > MAX_PROCESSED
    THEN SubSeq(ledger, Len(ledger) - MAX_PROCESSED + 1, Len(ledger))
    ELSE ledger

\* The slice is taken ...
RecordSlice(t) ==
    /\ pc[t] = "rec_slice"
    /\ sliced' = [sliced EXCEPT ![t] = LastRecords(processed_files)]
    /\ Goto(t, "rec_store")
    /\ UNCHANGED <<fsVars, envVars, sharedVars, cur, pid, status, done_path, exc,
                   todo, att, histVars, waitVars, retryVars, stopVars, restVars>>

\* ... and stored: self.processed_files = <the slice>.
RecordStore(t) ==
    /\ pc[t] = "rec_store"
    /\ processed_files' = sliced[t]
    /\ sliced' = [sliced EXCEPT ![t] = <<>>]
    /\ Goto(t, "cleanup")
    /\ UNCHANGED <<fsVars, envVars, currently_processing, processing_files, cur,
                   pid, status, done_path, exc, todo, att, histVars, waitVars,
                   retryVars, stopVars, restVars>>

\* _process_file with _record_processed_file taken step by step.
ProcessFileRecording == \E t \in Threads :
    \/ Enter(t)
    \/ CheckExists(t)
    \/ CheckOutput(t)
    \/ Transcribe(t)
    \/ MoveToDone(t)
    \/ Rename(t)
    \/ RecordAppend(t)
    \/ RecordLen(t)
    \/ RecordSlice(t)
    \/ RecordStore(t)
    \/ Cleanup(t)
    \/ Return(t)

NextLedgerRace ==
    \/ LedgerTick
    \/ PollList
    \/ PollNext
    \/ PollRecent
    \/ PollWait
    \/ SweepList
    \/ SweepNext
    \/ SweepEnd
    \/ ProcessFileRecording

SpecLedgerRace == InitLedgerRace /\ [][NextLedgerRace]_vars

(***************************************************************************)
(* Relocation.  The done directory outlives the monitor, so a run starts   *)
(* with whatever earlier runs have moved there; a.mp3 and a_1.mp3 are in   *)
(* the input directory when the poll loop and the startup sweep list it,   *)
(* and the user may take a file out of the input directory at any moment.  *)
(***************************************************************************)
\* The files in the input directory.
RelocNames == {NameA, NameA1}

InitRelocate ==
    /\ inputDir = RelocNames
    /\ outputDir = {}
    /\ doneDir \in {{}, {NameA}, RelocNames}
    /\ processed_files = <<>>
    /\ txCalls = [p \in AllNames |-> 0]
    /\ detections = [p \in AllNames |-> <<>>]
    /\ max_retries = DEFAULT_MAX_RETRIES
    /\ InitIdle

\* The user deletes a file of the input directory or moves it elsewhere.
UserRemoves ==
    \E p \in inputDir :
        /\ inputDir' = inputDir \ {p}
        /\ UNCHANGED <<outputDir, doneDir, envVars, sharedVars, localVars,
                       histVars, unitVars>>

NextRelocate ==
    \/ UserRemoves
    \/ PollList
    \/ PollNext
    \/ PollRecent
    \/ PollWait
    \/ SweepList
    \/ SweepNext
    \/ SweepEnd
    \/ ProcessFile

SpecRelocate == InitRelocate /\ [][NextRelocate]_vars

(***************************************************************************)
(* The stability wait, step by step.  a.mp3 is in the input directory when *)
(* the startup sweep lists it; while the sweep's call waits, the size that *)
(* stat() reports is whatever the writer of the file has made it, stat()   *)
(* may fail, and the user may take the file away.                          *)
(***************************************************************************)
InitStability ==
    /\ inputDir = {NameA}
    /\ outputDir = {}
    /\ doneDir = {}
    /\ processed_files = <<>>
    /\ txCalls = [p \in AllNames |-> 0]
    /\ detections = [p \in AllNames |-> <<>>]
    /\ max_retries = DEFAULT_MAX_RETRIES
    /\ InitIdle

\* The smaller of two numbers.
Min(a, b) == IF a < b THEN a ELSE b

\* The last n elements of a sequence (all of it when it is shorter).
LastN(seq, n) == IF Len(seq) > n THEN SubSeq(seq, Len(seq) - n + 1, Len(seq)) ELSE seq

\* if not file_path.exists(): return; else _wait_for_file_stability begins:
\* start_time = time.time(); last_size = 0; stable_count = 0.
CheckExistsAndBeginWait(t) ==
    /\ pc[t] = "exists"
    /\ IF path_exists(cur[t])
       THEN /\ att' = [att EXCEPT ![t].missing = cur[t] \notin inputDir,
                                  ![t].waits = @ + 1]
            /\ Goto(t, "wait_test")
            /\ UNCHANGED status
       ELSE /\ att' = [att EXCEPT ![t].missing = cur[t] \notin inputDir]
            /\ Goto(t, "cleanup")
            /\ status' = [status EXCEPT ![t] = "missing"]
    /\ last_size' = [last_size EXCEPT ![t] = 0]
    /\ stable_count' = [stable_count EXCEPT ![t] = 0]
    /\ waited' = [waited EXCEPT ![t] = 0]
    /\ samples' = [samples EXCEPT ![t] = 0]
    /\ readings' = [readings EXCEPT ![t] = <<0>>]
    /\ stat_exc' = [stat_exc EXCEPT ![t] = NoExc]
    /\ UNCHANGED <<fsVars, envVars, sharedVars, cur, pid, done_path, exc, todo,
                   histVars, recVars, retryVars, stopVars, restVars>>

\* A faulty variant of KeepWaiting: <= for <.
KeepWaiting_Inclusive(elapsed, max_wait) == elapsed <= max_wait

\* The loop condition time.time() - start_time < max_wait.
KeepWaiting(elapsed, max_wait) == elapsed < max_wait

\* while time.time() - start_time < max_wait:
WaitTest(t) ==
    /\ pc[t] = "wait_test"
    /\ Goto(t, IF KeepWaiting(waited[t], MAX_WAIT) THEN "wait_stat" ELSE "wait_ret")
    /\ UNCHANGED <<fsVars, envVars, sharedVars, cur, pid, status, done_path, exc,
                   todo, att, histVars, unitVars>>

\* A faulty variant of AfterStatError: the exception is not caught.
AfterStatError_Raise(e) == "except"

\* except FileNotFoundError / except Exception: log and break.  Where the
\* thread goes on after stat() raised e.
AfterStatError(e) == "wait_ret"

\* A faulty variant of StableAfter: the counter is not reset when the size
\* has changed.
StableAfter_NoReset(count, last, current) == count + 1

\* stable_count after a sample: one more when the size is the one of the
\* sample before, else 0.
StableAfter(count, last, current) == IF current = last THEN count + 1 ELSE 0

\* The body of the try: current_size = file_path.stat().st_size, the
\* comparison with last_size, the break at three equal sizes in a row, and
\* last_size = current_size.  stat() raises FileNotFoundError when the file
\* is gone and may raise another OSError when it is there.
WaitStat(t) ==
    /\ pc[t] = "wait_stat"
    /\ samples' = [samples EXCEPT ![t] = @ + 1]
    /\ \E r \in 0..MaxSize, fails \in BOOLEAN :
        LET e == IF cur[t] \notin inputDir THEN "not_found"
                 ELSE IF fails THEN "stat_error" ELSE NoExc
            count == StableAfter(stable_count[t], last_size[t], r)
        IN  IF e # NoExc
            THEN /\ stat_exc' = [stat_exc EXCEPT ![t] = e]
                 /\ Goto(t, AfterStatError(e))
                 /\ exc' = [exc EXCEPT ![t] = IF AfterStatError(e) = "except" THEN e ELSE @]
                 /\ UNCHANGED <<last_size, stable_count, readings>>
            ELSE /\ readings' = [readings EXCEPT ![t] = LastN(Append(@, r), STABLE_CHECKS + 1)]
                 /\ stable_count' = [stable_count EXCEPT ![t] = count]
                 /\ UNCHANGED stat_exc
                 /\ IF count >= STABLE_CHECKS
                    THEN Goto(t, "wait_ret") /\ UNCHANGED last_size
                    ELSE /\ Goto(t, "wait_sleep")
                         /\ last_size' = [last_size EXCEPT ![t] = r]
                 /\ UNCHANGED exc
    /\ UNCHANGED <<fsVars, envVars, sharedVars, cur, pid, status, done_path,
                   todo, att, histVars, recVars, retryVars, stopVars, restVars, waited>>

\* time.sleep(1), and the time the round took.
WaitSleep(t) ==
    /\ pc[t] = "wait_sleep"
    /\ \E d \in SLEEP_SECONDS..(SLEEP_SECONDS + MaxLag) :
          waited' = [waited EXCEPT ![t] = @ + d]
    /\ Goto(t, "wait_test")
    /\ UNCHANGED <<fsVars, envVars, sharedVars, cur, pid, status, done_path, exc,
                   todo, att, histVars, recVars, retryVars, stopVars, restVars, last_size,
                   stable_count, samples, readings, stat_exc>>

\* _wait_for_file_stability returns; _process_file goes on with output_path.
WaitReturn(t) ==
    /\ pc[t] = "wait_ret"
    /\ Goto(t, "outcheck")
    /\ last_size' = [last_size EXCEPT ![t] = 0]
    /\ stable_count' = [stable_count EXCEPT ![t] = 0]
    /\ waited' = [waited EXCEPT ![t] = 0]
    /\ samples' = [samples EXCEPT ![t] = 0]
    /\ readings' = [readings EXCEPT ![t] = <<>>]
    /\ stat_exc' = [stat_exc EXCEPT ![t] = NoExc]
    /\ UNCHANGED <<fsVars, envVars, sharedVars, cur, pid, status, done_path, exc,
                   todo, att, histVars, recVars, retryVars, stopVars, restVars>>

\* _process_file with _wait_for_file_stability taken step by step.
ProcessFileWaiting == \E t \in Threads :
    \/ Enter(t)
    \/ CheckExistsAndBeginWait(t)
    \/ WaitTest(t)
    \/ WaitStat(t)
    \/ WaitSleep(t)
    \/ WaitReturn(t)
    \/ CheckOutput(t)
    \/ Transcribe(t)
    \/ MoveToDone(t)
    \/ Rename(t)
    \/ Record(t)
    \/ HandleException(t)
    \/ Cleanup(t)
    \/ Return(t)

NextStability ==
    \/ UserRemoves
    \/ SweepList
    \/ SweepNext
    \/ SweepEnd
    \/ ProcessFileWaiting

SpecStability == InitStability /\ [][NextStability]_vars

(***************************************************************************)
(* transcribe_and_save, step by step: the checks of transcribe_file, its   *)
(* retry loop around the remote call, and save_transcript.  a.mp3 is in    *)
(* the input directory when the startup sweep lists it; the client was     *)
(* built with some max_retries >= 1 (Config.validate rejects less).        *)
(***************************************************************************)
InitRetry ==
    /\ inputDir = {NameA}
    /\ outputDir = {}
    /\ doneDir = {}
    /\ processed_files = <<>>
    /\ txCalls = [p \in AllNames |-> 0]
    /\ detections = [p \in AllNames |-> <<>>]
    /\ max_retries \in 1..MaxRetries
    /\ InitIdle

\* What self.transcriber.transcribe(...) can do: return a transcript with a
\* text, with an empty text, with no text, or with the status "error"; raise
\* TranscriptError; raise another exception.
RemoteOutcomes == {"text", "empty", "none", "error_status", "TranscriptError", "Exception"}

\* The outcomes after which the loop retries or gives up.
RemoteFailures == {"error_status", "TranscriptError", "Exception"}

\* The texts a transcript can carry.
RemoteTexts == {"text one", "text two"}

\* if not transcript.text: return ""; return str(transcript.text or "")
ReturnedText(text) == IF text = NoText \/ text = "" THEN "" ELSE text

\* A faulty variant of IsLastAttempt: the loop gives up one attempt early.
IsLastAttempt_Early(a, m) == a >= m - 2

\* A faulty variant of IsLastAttempt: the loop never gives up inside the
\* except clause.
IsLastAttempt_Never(a, m) == FALSE

\* if attempt == self.max_retries - 1
IsLastAttempt(a, m) == a = m - 1

\* The TranscriberError of the raise that follows the for loop: its message
\* names the number of attempts and no cause.
AfterLoopError == "Transcription failed after retries (after the loop)"

\* The exception transcribe_and_save lets through.
RaiseFromTranscribe(t, e) ==
    /\ exc' = [exc EXCEPT ![t] = e]
    /\ att' = [att EXCEPT ![t].raised = e]
    /\ Goto(t, "except")

\* A faulty variant of TranscribeFileCheck: no check.
TranscribeFileCheck_None(name) == NoExc

\* The two checks of transcribe_file: the exception it raises before the
\* loop, if any.
TranscribeFileCheck(name) ==
    IF ~path_exists(name) THEN "Audio file does not exist"
    ELSE IF ~is_supported_file(name) THEN "Unsupported file format"
    ELSE NoExc

\* transcribe_and_save calls transcribe_file: the two checks, and the first
\* round of "for attempt in range(self.max_retries)".
TfBegin(t) ==
    /\ pc[t] = "transcribe"
    /\ txCalls' = [txCalls EXCEPT ![cur[t]] = @ + 1]
    /\ attempt' = [attempt EXCEPT ![t] = 0]
    /\ transcript' = [transcript EXCEPT ![t] = NoText]
    /\ remote_calls' = [remote_calls EXCEPT ![t] = 0]
    /\ failures' = [failures EXCEPT ![t] = 0]
    /\ sleeps' = [sleeps EXCEPT ![t] = 0]
    /\ remote_text' = [remote_text EXCEPT ![t] = NoText]
    /\ LET e == IF TranscribeFileCheck(cur[t]) # NoExc THEN TranscribeFileCheck(cur[t])
                 ELSE IF ~(0 < max_retries) THEN AfterLoopError
                 ELSE NoExc
       IN  /\ exc' = [exc EXCEPT ![t] = e]
           /\ att' = [att EXCEPT ![t].tx = @ + 1, ![t].raised = e]
           /\ Goto(t, IF e = NoExc THEN "tf_call" ELSE "except")
    /\ UNCHANGED <<fsVars, envVars, sharedVars, cur, pid, status, done_path, todo,
                   calls, detections, overlap, recVars, waitVars, max_retries,
                   stopVars, restVars>>

\* The body of the try: the remote call, and what follows from its outcome:
\* the return of the text, or the except clause, which raises on the last
\* attempt and goes to sleep on the others.
TfCall(t) ==
    /\ pc[t] = "tf_call"
    /\ remote_calls' = [remote_calls EXCEPT ![t] = @ + 1]
    /\ \E outcome \in RemoteOutcomes, txt \in RemoteTexts :
        LET text == CASE outcome = "text"  -> txt
                      [] outcome = "empty" -> ""
                      [] OTHER             -> NoText
        IN  /\ remote_text' = [remote_text EXCEPT ![t] = text]
            /\ IF outcome \notin RemoteFailures
               THEN /\ transcript' = [transcript EXCEPT ![t] = ReturnedText(text)]
                    /\ Goto(t, "tf_save")
                    /\ UNCHANGED <<failures, exc, att>>
               ELSE /\ failures' = [failures EXCEPT ![t] = @ + 1]
                    /\ UNCHANGED transcript
                    /\ IF IsLastAttempt(attempt[t], max_retries)
                       THEN RaiseFromTranscribe(t, "Transcription failed after retries")
                       ELSE Goto(t, "tf_sleep") /\ UNCHANGED <<exc, att>>
    /\ UNCHANGED <<fsVars, envVars, sharedVars, cur, pid, status, done_path, todo,
                   histVars, recVars, waitVars, max_retries, attempt, sleeps,
                   stopVars, restVars>>

\* time.sleep(self.retry_delay) and the next round of the for loop; the
\* raise after the loop when range(self.max_retries) is exhausted.
TfSleep(t) ==
    /\ pc[t] = "tf_sleep"
    /\ sleeps' = [sleeps EXCEPT ![t] = @ + 1]
    /\ attempt' = [attempt EXCEPT ![t] = @ + 1]
    /\ IF attempt[t] + 1 < max_retries
       THEN Goto(t, "tf_call") /\ UNCHANGED <<exc, att>>
       ELSE RaiseFromTranscribe(t, AfterLoopError)
    /\ UNCHANGED <<fsVars, envVars, sharedVars, cur, pid, status, done_path, todo,
                   histVars, recVars, waitVars, max_retries, transcript,
                   remote_calls, failures, remote_text, stopVars, restVars>>

\* self.save_transcript(transcript, output_path): it writes the file, or
\* fails after open() has created it.
TfSave(t) ==
    /\ pc[t] = "tf_save"
    /\ outputDir' = outputDir \cup {OutputName(cur[t])}
    /\ \E ok \in BOOLEAN :
        IF ok
        THEN /\ Goto(t, "move")
             /\ status' = [status EXCEPT ![t] = "success"]
             /\ UNCHANGED <<exc, att>>
        ELSE /\ RaiseFromTranscribe(t, "Failed to save transcript")
             /\ UNCHANGED status
    /\ UNCHANGED <<inputDir, doneDir, envVars, sharedVars, cur, pid, done_path,
                   todo, histVars, unitVars>>

\* _process_file with transcribe_and_save taken step by step.
ProcessFileRetrying == \E t \in Threads :
    \/ Enter(t)
    \/ CheckExists(t)
    \/ CheckOutput(t)
    \/ TfBegin(t)
    \/ TfCall(t)
    \/ TfSleep(t)
    \/ TfSave(t)
    \/ MoveToDone(t)
    \/ Rename(t)
    \/ Record(t)
    \/ HandleException(t)
    \/ Cleanup(t)
    \/ Return(t)

NextRetry ==
    \/ UserRemoves
    \/ SweepList
    \/ SweepNext
    \/ SweepEnd
    \/ ProcessFileRetrying

SpecRetry == InitRetry /\ [][NextRetry]_vars

(***************************************************************************)
(* The transcribe command of the CLI: the main thread calls                *)
(* transcribe_and_save for a path the user names, of any extension; the    *)
(* file may be gone by the time transcribe_file looks.                     *)
(***************************************************************************)
\* A call of transcribe_and_save by the main thread, for a path of any
\* extension that may be gone, nothing else of the program running.
TranscribeCall ==
    /\ \E p \in Names :
        /\ cur = [t \in Threads |-> IF t = "sweep" THEN p ELSE NoName]
        /\ inputDir \in {{}, {p}}
    /\ outputDir = {}
    /\ doneDir = {}
    /\ processed_files = <<>>
    /\ txCalls = [p \in AllNames |-> 0]
    /\ detections = [p \in AllNames |-> <<>>]
    /\ events = {}
    /\ created = 0
    /\ clock = 0
    /\ calls = 0
    /\ currently_processing = << >>
    /\ processing_files = {}
    /\ pc = [t \in Threads |-> IF t = "sweep" THEN "transcribe" ELSE "not_started"]
    /\ pid = [t \in Threads |-> 0]
    /\ status = [t \in Threads |-> "none"]
    /\ done_path = [t \in Threads |-> NoName]
    /\ exc = [t \in Threads |-> NoExc]
    /\ todo = [t \in Threads |-> {}]
    /\ att = [t \in Threads |-> NoAttempt]
    /\ overlap = [p \in AllNames |-> FALSE]
    /\ sliced = [t \in Threads |-> <<>>]
    /\ last_size = [t \in Threads |-> 0]
    /\ stable_count = [t \in Threads |-> 0]
    /\ waited = [t \in Threads |-> 0]
    /\ samples = [t \in Threads |-> 0]
    /\ readings = [t \in Threads |-> <<>>]
    /\ stat_exc = [t \in Threads |-> NoExc]
    /\ attempt = [t \in Threads |-> 0]
    /\ transcript = [t \in Threads |-> NoText]
    /\ remote_calls = [t \in Threads |-> 0]
    /\ failures = [t \in Threads |-> 0]
    /\ sleeps = [t \in Threads |-> 0]
    /\ remote_text = [t \in Threads |-> NoText]
    /\ stop_event = FALSE
    /\ observer_stopped = FALSE
    /\ svc_pc = "idle"
    /\ running = FALSE
    /\ config_state = "ok"
    /\ exit_status = 0
    /\ monitor = "None"
    /\ transcribers_created = 1
    /\ monitors_created = 0
    /\ monitor_starts = 0
    /\ monitor_stops = 0
    /\ start_calls = 0
    /\ stop_calls = 0
    /\ api_calls = 0
    /\ handlers_installed = FALSE
    /\ signals = 0
    /\ signalled_running = FALSE
    /\ NoQuery

InitCli ==
    /\ max_retries \in 1..MaxRetries
    /\ TranscribeCall

NextCli ==
    \/ TfBegin("sweep")
    \/ TfCall("sweep")
    \/ TfSleep("sweep")
    \/ TfSave("sweep")

SpecCli == InitCli /\ [][NextCli]_vars

(***************************************************************************)
(* transcribe_and_save on a client constructed directly, as the tests      *)
(* construct it: AudioTranscriber.__init__ stores the max_retries it is    *)
(* given without looking at it, so it may be 0 or negative.                *)
(***************************************************************************)
\* The smallest max_retries taken.
MinRetries == 0 - 1

\* The values of max_retries the constructor accepts.
AcceptedRetries == MinRetries..MaxRetries

InitDirect ==
    /\ max_retries \in AcceptedRetries
    /\ TranscribeCall

SpecDirect == InitDirect /\ [][NextCli]_vars

(***************************************************************************)
(* Shutdown: FolderMonitor.stop(), called by the main thread after start() *)
(* has returned.  The startup sweep found the input directory empty; since *)
(* then a.mp3 and a.WAV have been copied into it and the watcher has       *)
(* queued their events.                                                    *)
(***************************************************************************)
StopNames == {NameA, NameB}

InitStop ==
    /\ inputDir = StopNames
    /\ outputDir = {}
    /\ doneDir = {}
    /\ processed_files = <<>>
    /\ txCalls = [p \in AllNames |-> 0]
    /\ detections = [p \in AllNames |-> <<>>]
    /\ max_retries = DEFAULT_MAX_RETRIES
    /\ events = StopNames
    /\ created = Cardinality(StopNames)
    /\ clock = 0
    /\ calls = 0
    /\ currently_processing = << >>
    /\ processing_files = {}
    /\ pc = [t \in Threads |->
               CASE t = "event" -> "idle"
                 [] t = "poll"  -> "poll_wait"
                 [] t = "sweep" -> "sweep_done"]
    /\ cur = [t \in Threads |-> NoName]
    /\ pid = [t \in Threads |-> 0]
    /\ status = [t \in Threads |-> "none"]
    /\ done_path = [t \in Threads |-> NoName]
    /\ exc = [t \in Threads |-> NoExc]
    /\ todo = [t \in Threads |-> {}]
    /\ att = [t \in Threads |-> NoAttempt]
    /\ overlap = [p \in AllNames |-> FALSE]
    /\ sliced = [t \in Threads |-> <<>>]
    /\ last_size = [t \in Threads |-> 0]
    /\ stable_count = [t \in Threads |-> 0]
    /\ waited = [t \in Threads |-> 0]
    /\ samples = [t \in Threads |-> 0]
    /\ readings = [t \in Threads |-> <<>>]
    /\ stat_exc = [t \in Threads |-> NoExc]
    /\ attempt = [t \in Threads |-> 0]
    /\ transcript = [t \in Threads |-> NoText]
    /\ remote_calls = [t \in Threads |-> 0]
    /\ failures = [t \in Threads |-> 0]
    /\ sleeps = [t \in Threads |-> 0]
    /\ remote_text = [t \in Threads |-> NoText]
    /\ stop_event = FALSE
    /\ observer_stopped = FALSE
    /\ ServiceStarted

\* What the steps of stop() leave alone.
StopUnchanged ==
    UNCHANGED <<fsVars, envVars, sharedVars, cur, pid, status, done_path, exc,
                todo, att, histVars, recVars, waitVars, retryVars, restVars>>

\* The observer thread is alive: no exception has ended it.
ObserverAlive == pc["event"] # "event_failed"

\* The observer thread has left its dispatch loop, which it does between two
\* events once the observer is stopped, never inside a handler.
ObserverThreadEnded == pc["event"] \in {"idle", "event_failed"}

\* if self.observer.is_alive(): self.observer.stop()
StopObserver ==
    /\ pc["sweep"] = "sweep_done"
    /\ IF ObserverAlive
       THEN /\ observer_stopped' = TRUE
            /\ Goto("sweep", "stop_join_observer")
       ELSE /\ UNCHANGED observer_stopped
            /\ Goto("sweep", "stop_set")
    /\ UNCHANGED stop_event
    /\ StopUnchanged

\* self.observer.join(): no timeout, so it returns when the observer thread
\* has ended and not before.
StopJoinObserver ==
    /\ pc["sweep"] = "stop_join_observer"
    /\ ObserverThreadEnded
    /\ Goto("sweep", "stop_set")
    /\ UNCHANGED stopVars
    /\ StopUnchanged

\* self._stop_event.set() and the test of self._poll_thread.is_alive().
StopSetEvent ==
    /\ pc["sweep"] = "stop_set"
    /\ stop_event' = TRUE
    /\ Goto("sweep", IF pc["poll"] # "poll_done" THEN "stop_join_poll" ELSE "stopped")
    /\ UNCHANGED observer_stopped
    /\ StopUnchanged

\* self._poll_thread.join(timeout=5): it returns when the poll thread has
\* ended or when the five seconds are over, whichever is first.
StopJoinPoll ==
    /\ pc["sweep"] = "stop_join_poll"
    /\ Goto("sweep", "stopped")
    /\ UNCHANGED stopVars
    /\ StopUnchanged

\* self._stop_event.wait(...) returns with the event set and the while
\* condition ends _poll_directory.
PollExit ==
    /\ pc["poll"] = "poll_wait"
    /\ stop_event
    /\ Goto("poll", "poll_done")
    /\ UNCHANGED stopVars
    /\ StopUnchanged

NextStop ==
    \/ OnFileEvent
    \/ PollList
    \/ PollNext
    \/ PollRecent
    \/ PollWait
    \/ PollExit
    \/ StopObserver
    \/ StopJoinObserver
    \/ StopSetEvent
    \/ StopJoinPoll
    \/ ProcessFile

SpecStop == InitStop /\ [][NextStop]_vars

(***************************************************************************)
(* Failures and the two loops.  a.mp3 and a.WAV are in the input directory *)
(* when start() is called: the startup sweep and the poll loop both list   *)
(* them, every transcription can fail, and stop() follows the sweep.       *)
(***************************************************************************)
InitContain ==
    /\ inputDir = StopNames
    /\ outputDir = {}
    /\ doneDir = {}
    /\ processed_files = <<>>
    /\ txCalls = [p \in AllNames |-> 0]
    /\ detections = [p \in AllNames |-> <<>>]
    /\ max_retries = DEFAULT_MAX_RETRIES
    /\ InitIdle

NextContain ==
    \/ PollList
    \/ PollNext
    \/ PollRecent
    \/ PollWait
    \/ PollExit
    \/ SweepList
    \/ SweepNext
    \/ SweepEnd
    \/ StopObserver
    \/ StopJoinObserver
    \/ StopSetEvent
    \/ StopJoinPoll
    \/ ProcessFile

SpecContain == InitContain /\ [][NextContain]_vars

(***************************************************************************)
(* The poll loop as the backstop: the watcher's events are queued and never*)
(* delivered, so only the startup sweep and the poll loop call the         *)
(* pipeline.  The poll thread is scheduled fairly: _stop_event.wait(...)   *)
(* times out, the directory listing and every step of a pipeline execution*)
(* the thread drives come to an end.                                       *)
(***************************************************************************)
\* The steps of the poll thread.
PollThread ==
    \/ PollList
    \/ PollNext
    \/ PollRecent
    \/ PollWait
    \/ Enter("poll")
    \/ CheckExists("poll")
    \/ CheckOutput("poll")
    \/ Transcribe("poll")
    \/ MoveToDone("poll")
    \/ Rename("poll")
    \/ Record("poll")
    \/ HandleException("poll")
    \/ Cleanup("poll")
    \/ Return("poll")

NextBackstop ==
    \/ UserCreates
    \/ Tick
    \/ PollList
    \/ PollNext
    \/ PollRecent
    \/ PollWait
    \/ SweepList
    \/ SweepNext
    \/ SweepEnd
    \/ ProcessFile

SpecBackstop == Init /\ [][NextBackstop]_vars /\ WF_vars(PollThread)

(***************************************************************************)
(* The queries: get_statistics and get_recent_files, made of a ledger that *)
(* pipeline executions have filled.  The records of a ledger are in the    *)
(* order of their completion times; the oldest is 25 hours old.            *)
(***************************************************************************)
\* The statuses _process_file records.
Statuses == {"success", "error", "skipped"}

\* time.time() when the queries are made.
QueryNow == 25 * RECENT_SECONDS

\* How long before QueryNow a record was completed: just now, 30 minutes,
\* one hour, 24 hours, 25 hours.
RecordAges == {0, RECENT_SECONDS \div 2, RECENT_SECONDS, 24 * RECENT_SECONDS,
               25 * RECENT_SECONDS}

\* The arguments of get_recent_files: the default of get_status and the
\* default of the method.
HoursArgs == {1, 24}

\* The ledgers: up to MaxLedgerLen records, the older first.
QueryLedgers ==
    LET Shapes == UNION {[1..n -> RecordAges \X Statuses] : n \in 0..MaxLedgerLen}
        Ordered(f) == \A i \in 1..Len(f) : \A j \in i..Len(f) : f[i][1] >= f[j][1]
    IN  {[i \in 1..Len(f) |->
            ProcessedFile(NameA, QueryNow - f[i][1], f[i][2],
                          IF f[i][2] = "success" THEN NoExc ELSE "message", i)]
         : f \in {g \in Shapes : Ordered(g)}}

InitQuery ==
    /\ inputDir = {}
    /\ outputDir = {}
    /\ doneDir = {}
    /\ processed_files \in QueryLedgers
    /\ txCalls = [p \in AllNames |-> 0]
    /\ detections = [p \in AllNames |-> <<>>]
    /\ max_retries = DEFAULT_MAX_RETRIES
    /\ events = {}
    /\ created = 0
    /\ clock = QueryNow
    /\ calls = 0
    /\ currently_processing = << >>
    /\ processing_files = {}
    /\ pc = [t \in Threads |->
               CASE t = "event" -> "idle"
                 [] t = "poll"  -> "poll_wait"
                 [] t = "sweep" -> "sweep_done"]
    /\ cur = [t \in Threads |-> NoName]
    /\ pid = [t \in Threads |-> 0]
    /\ status = [t \in Threads |-> "none"]
    /\ done_path = [t \in Threads |-> NoName]
    /\ exc = [t \in Threads |-> NoExc]
    /\ todo = [t \in Threads |-> {}]
    /\ att = [t \in Threads |-> NoAttempt]
    /\ overlap = [p \in AllNames |-> FALSE]
    /\ sliced = [t \in Threads |-> <<>>]
    /\ last_size = [t \in Threads |-> 0]
    /\ stable_count = [t \in Threads |-> 0]
    /\ waited = [t \in Threads |-> 0]
    /\ samples = [t \in Threads |-> 0]
    /\ readings = [t \in Threads |-> <<>>]
    /\ stat_exc = [t \in Threads |-> NoExc]
    /\ attempt = [t \in Threads |-> 0]
    /\ transcript = [t \in Threads |-> NoText]
    /\ remote_calls = [t \in Threads |-> 0]
    /\ failures = [t \in Threads |-> 0]
    /\ sleeps = [t \in Threads |-> 0]
    /\ remote_text = [t \in Threads |-> NoText]
    /\ stop_event = FALSE
    /\ observer_stopped = FALSE
    /\ svc_pc = "sleep"
    /\ running = TRUE
    /\ config_state = "ok"
    /\ exit_status = 0
    /\ monitor = "started"
    /\ transcribers_created = 1
    /\ monitors_created = 1
    /\ monitor_starts = 1
    /\ monitor_stops = 0
    /\ start_calls = 1
    /\ stop_calls = 0
    /\ api_calls = 1
    /\ handlers_installed = TRUE
    /\ signals = 0
    /\ signalled_running = FALSE
    /\ NoQuery

\* A faulty variant of CountStatus: the records of the other statuses are
\* counted.
CountStatus_Others(ledger, st) ==
    Cardinality({i \in 1..Len(ledger) : ledger[i].status # st})

\* sum(1 for f in self.processed_files if f.status == st)
CountStatus(ledger, st) ==
    Cardinality({i \in 1..Len(ledger) : ledger[i].status = st})

\* get_statistics
get_statistics(ledger, alive) ==
    LET total_files == Len(ledger)
        successful == CountStatus(ledger, "success")
    IN  [total_processed |-> total_files,
         successful |-> successful,
         errors |-> CountStatus(ledger, "error"),
         skipped |-> CountStatus(ledger, "skipped"),
         success_rate |-> IF total_files > 0 THEN Ratio(successful, total_files)
                          ELSE Ratio(0, 1),
         is_monitoring |-> alive]

\* A faulty variant of WindowSeconds: minutes for hours.
WindowSeconds_Minutes(h) == h * 60

\* hours * 3600
WindowSeconds(h) == h * 3600

\* [f for f in ledger if f.processed_at > now - window]
RECURSIVE SelectRecords(_, _, _)
SelectRecords(ledger, now, window) ==
    IF ledger = <<>> THEN <<>>
    ELSE LET rest == SelectRecords(Tail(ledger), now, window)
         IN  IF Head(ledger).processed_at > now - window
             THEN <<Head(ledger)>> \o rest
             ELSE rest

\* get_recent_files
get_recent_files(ledger, now, h) == SelectRecords(ledger, now, WindowSeconds(h))

\* self.monitor.get_statistics(), as _log_statistics and get_status call it.
GetStatistics ==
    /\ queries < MaxQueries
    /\ queries' = queries + 1
    /\ query' = "statistics"
    /\ stats' = get_statistics(processed_files, ~observer_stopped)
    /\ UNCHANGED <<fsVars, envVars, sharedVars, localVars, histVars, recVars,
                   waitVars, retryVars, stopVars, svcVars, recent, hours>>

\* self.monitor.get_recent_files(hours)
GetRecentFiles ==
    /\ queries < MaxQueries
    /\ queries' = queries + 1
    /\ query' = "recent"
    /\ \E h \in HoursArgs :
        /\ hours' = h
        /\ recent' = get_recent_files(processed_files, clock, h)
    /\ UNCHANGED <<fsVars, envVars, sharedVars, localVars, histVars, recVars,
                   waitVars, retryVars, stopVars, svcVars, stats>>

NextQuery ==
    \/ GetStatistics
    \/ GetRecentFiles

SpecQuery == InitQuery /\ [][NextQuery]_vars

(***************************************************************************)
(* TranscriptService: construction, start, stop, run and the signal        *)
(* handler.  The monitor is seen from outside: constructed, started,       *)
(* stopped.  The directories are empty, so FolderMonitor.start and         *)
(* FolderMonitor.stop find no file and no pipeline execution.              *)
(***************************************************************************)
\* How the try block of __init__ can end.
ConfigOutcomes == {"ok", "ConfigError", "Exception"}

\* How the try block of start can end: normally, or with an exception of
\* the named call.  Of monitor.start() two failures are kept apart: one
\* before the observer and the poll thread are started ("monitor.start"),
\* and one of the startup sweep that follows their start
\* ("_process_existing_files").
StartOutcomes == {"ok", "validate_directories", "AudioTranscriber",
                  "FolderMonitor", "monitor.start", "_process_existing_files"}

\* Whether start had constructed the transcriber / the monitor, and called
\* monitor.start, when the outcome came.
ReachedTranscriber(o) == o \in {"ok", "FolderMonitor", "monitor.start",
                                "_process_existing_files"}
ReachedMonitor(o) == o \in {"ok", "monitor.start", "_process_existing_files"}
\* Whether monitor.start() had started the observer and the poll thread.
ThreadsStarted(o) == o \in {"ok", "_process_existing_files"}

InitService ==
    /\ inputDir = {}
    /\ outputDir = {}
    /\ doneDir = {}
    /\ processed_files = <<>>
    /\ txCalls = [p \in AllNames |-> 0]
    /\ detections = [p \in AllNames |-> <<>>]
    /\ max_retries = DEFAULT_MAX_RETRIES
    /\ events = {}
    /\ created = 0
    /\ clock = 0
    /\ calls = 0
    /\ currently_processing = << >>
    /\ processing_files = {}
    /\ pc = [t \in Threads |-> "not_started"]
    /\ cur = [t \in Threads |-> NoName]
    /\ pid = [t \in Threads |-> 0]
    /\ status = [t \in Threads |-> "none"]
    /\ done_path = [t \in Threads |-> NoName]
    /\ exc = [t \in Threads |-> NoExc]
    /\ todo = [t \in Threads |-> {}]
    /\ att = [t \in Threads |-> NoAttempt]
    /\ overlap = [p \in AllNames |-> FALSE]
    /\ sliced = [t \in Threads |-> <<>>]
    /\ last_size = [t \in Threads |-> 0]
    /\ stable_count = [t \in Threads |-> 0]
    /\ waited = [t \in Threads |-> 0]
    /\ samples = [t \in Threads |-> 0]
    /\ readings = [t \in Threads |-> <<>>]
    /\ stat_exc = [t \in Threads |-> NoExc]
    /\ attempt = [t \in Threads |-> 0]
    /\ transcript = [t \in Threads |-> NoText]
    /\ remote_calls = [t \in Threads |-> 0]
    /\ failures = [t \in Threads |-> 0]
    /\ sleeps = [t \in Threads |-> 0]
    /\ remote_text = [t \in Threads |-> NoText]
    /\ stop_event = FALSE
    /\ observer_stopped = FALSE
    /\ svc_pc = "new"
    /\ running = FALSE
    /\ config_state = "unknown"
    /\ exit_status = 0
    /\ monitor = "None"
    /\ transcribers_created = 0
    /\ monitors_created = 0
    /\ monitor_starts = 0
    /\ monitor_stops = 0
    /\ start_calls = 0
    /\ stop_calls = 0
    /\ api_calls = 0
    /\ handlers_installed = FALSE
    /\ signals = 0
    /\ signalled_running = FALSE
    /\ NoQuery

\* What the service's steps leave alone.
ServiceUnchanged ==
    UNCHANGED <<fsVars, envVars, sharedVars, localVars, histVars, recVars,
                waitVars, retryVars, queryVars>>

\* A faulty variant of AfterInit: a failed configuration does not end the
\* process.
AfterInit_Continue(o) == "idle"

\* __init__: the except clauses call sys.exit(1).
AfterInit(o) == IF o = "ok" THEN "idle" ELSE "exited"

\* TranscriptService(config_path)
Construct ==
    /\ svc_pc = "new"
    /\ \E o \in ConfigOutcomes :
        /\ config_state' = o
        /\ exit_status' = IF o = "ok" THEN exit_status ELSE EXIT_FAILURE
        /\ svc_pc' = AfterInit(o)
    /\ UNCHANGED <<running, monitor, transcribers_created, monitors_created,
                   monitor_starts, monitor_stops, start_calls, stop_calls,
                   api_calls, handlers_installed, signals, signalled_running,
                   stopVars>>
    /\ ServiceUnchanged

\* A faulty variant of StartSkips: start has no guard.
StartSkips_Never(r) == FALSE

\* start: if self.running: return
StartSkips(r) == r

\* A faulty variant of StopSkips: stop has no guard.
StopSkips_Never(r) == FALSE

\* stop: if not self.running: return
StopSkips(r) == ~r

\* The body of start.  A new FolderMonitor has a new observer and a new stop
\* event.  When the try block fails, the except clause calls self.stop(),
\* which returns at its guard because running is False, and re-raises.
StartBody(o) ==
    /\ start_calls' = start_calls + 1
    /\ IF StartSkips(running)
       THEN UNCHANGED <<running, monitor, transcribers_created, monitors_created,
                        monitor_starts, stop_calls, stopVars>>
       ELSE /\ stop_calls' = stop_calls + (IF o = "ok" THEN 0 ELSE 1)
            /\ transcribers_created' = transcribers_created + (IF ReachedTranscriber(o) THEN 1 ELSE 0)
            /\ monitors_created' = monitors_created + (IF ReachedMonitor(o) THEN 1 ELSE 0)
            /\ monitor_starts' = monitor_starts + (IF ReachedMonitor(o) THEN 1 ELSE 0)
            /\ monitor' = IF ThreadsStarted(o) THEN "started"
                          ELSE IF o = "monitor.start" THEN "created"
                          ELSE monitor
            /\ stop_event' = IF ReachedMonitor(o) THEN FALSE ELSE stop_event
            /\ observer_stopped' = IF ReachedMonitor(o) THEN FALSE ELSE observer_stopped
            /\ running' = IF o = "ok" THEN TRUE ELSE running
    /\ UNCHANGED <<config_state, exit_status, monitor_stops,
                   handlers_installed, signals, signalled_running>>
    /\ ServiceUnchanged

\* The body of stop.  self.monitor.stop() stops the observer and sets the
\* stop event, or raises; self.running = False follows it inside the try.
StopBody ==
    /\ stop_calls' = stop_calls + 1
    /\ IF StopSkips(running)
       THEN UNCHANGED <<running, monitor_stops, stopVars>>
       ELSE IF monitor # "None"
            THEN /\ monitor_stops' = monitor_stops + 1
                 /\ \E raises \in BOOLEAN :
                      IF raises
                      THEN UNCHANGED <<running, stopVars>>
                      ELSE /\ running' = FALSE
                           /\ observer_stopped' = TRUE
                           /\ stop_event' = TRUE
            ELSE /\ running' = FALSE
                 /\ UNCHANGED <<monitor_stops, stopVars>>
    /\ UNCHANGED <<config_state, exit_status, monitor, transcribers_created,
                   monitors_created, monitor_starts, start_calls,
                   handlers_installed, signals, signalled_running>>
    /\ ServiceUnchanged

\* The program using the service calls start().
CallStart ==
    /\ svc_pc = "idle"
    /\ api_calls < MaxApiCalls
    /\ api_calls' = api_calls + 1
    /\ \E o \in StartOutcomes : StartBody(o)
    /\ UNCHANGED svc_pc

\* The program using the service calls stop().
CallStop ==
    /\ svc_pc = "idle"
    /\ api_calls < MaxApiCalls
    /\ api_calls' = api_calls + 1
    /\ StopBody
    /\ UNCHANGED svc_pc

\* The program using the service calls run(): the two signal.signal calls.
RunInstall ==
    /\ svc_pc = "idle"
    /\ api_calls < MaxApiCalls
    /\ api_calls' = api_calls + 1
    /\ handlers_installed' = TRUE
    /\ svc_pc' = "run_start"
    /\ UNCHANGED <<running, config_state, exit_status, monitor,
                   transcribers_created, monitors_created, monitor_starts,
                   monitor_stops, start_calls, stop_calls, signals,
                   signalled_running, stopVars>>
    /\ ServiceUnchanged

\* run: self.start(); an exception of it is logged by the except clause of
\* run, and the finally clause follows.
RunStart ==
    /\ svc_pc = "run_start"
    /\ \E o \in StartOutcomes :
        /\ StartBody(o)
        /\ svc_pc' = IF o = "ok" \/ StartSkips(running) THEN "loop_test" ELSE "finally"
    /\ UNCHANGED api_calls

\* run: while self.running
LoopTest ==
    /\ svc_pc = "loop_test"
    /\ svc_pc' = IF running THEN "sleep" ELSE "finally"
    /\ UNCHANGED <<running, config_state, exit_status, monitor,
                   transcribers_created, monitors_created, monitor_starts,
                   monitor_stops, start_calls, stop_calls, api_calls,
                   handlers_installed, signals, signalled_running, stopVars>>
    /\ ServiceUnchanged

\* run: time.sleep(1) and the statistics log.
LoopSleep ==
    /\ svc_pc = "sleep"
    /\ svc_pc' = "loop_test"
    /\ UNCHANGED <<running, config_state, exit_status, monitor,
                   transcribers_created, monitors_created, monitor_starts,
                   monitor_stops, start_calls, stop_calls, api_calls,
                   handlers_installed, signals, signalled_running, stopVars>>
    /\ ServiceUnchanged

\* _signal_handler, run by the main thread between two steps of run once
\* the handlers are installed.
HandleSignal ==
    /\ handlers_installed
    /\ svc_pc \in {"run_start", "loop_test", "sleep", "finally"}
    /\ signals < MaxSignals
    /\ signals' = signals + 1
    /\ signalled_running' = (signalled_running \/ running)
    /\ running' = FALSE
    /\ UNCHANGED <<svc_pc, config_state, exit_status, monitor,
                   transcribers_created, monitors_created, monitor_starts,
                   monitor_stops, start_calls, stop_calls, api_calls,
                   handlers_installed, stopVars>>
    /\ ServiceUnchanged

\* run: finally: self.stop(), and run returns.
RunFinally ==
    /\ svc_pc = "finally"
    /\ StopBody
    /\ svc_pc' = "returned"
    /\ UNCHANGED api_calls

NextService ==
    \/ Construct
    \/ CallStart
    \/ CallStop
    \/ RunInstall
    \/ RunStart
    \/ LoopTest
    \/ LoopSleep
    \/ HandleSignal
    \/ RunFinally

SpecService == InitService /\ [][NextService]_vars

TypeOK ==
    /\ inputDir \subseteq Names
    /\ events \subseteq Names
    /\ calls \in 0..MaxCalls
    /\ Len(processed_files) <= MaxCalls
    /\ \A t \in Threads : pc[t] \in CallPcs \cup
          {"idle", "poll_wait", "poll_iter", "poll_recent", "sweep_list",
           "sweep_iter", "sweep_done", "event_failed", "sweep_failed"}


(***************************************************************************)
(* Properties.                                                             *)
(***************************************************************************)
\* The ledger records of one call, by its processing id.
RecordsBy(id) == {i \in 1..Len(processed_files) : processed_files[i].processing_id = id}

\* The ledger records of one path.
RecordsOf(p) == {i \in 1..Len(processed_files) : processed_files[i].path = p}

\* C1: at any time at most one thread is inside the pipeline body (after the
\* check-then-insert, up to the pop of the finally clause) for a given path.
C1_AtMostOneActive ==
    \A t1, t2 \in Threads :
        (t1 # t2 /\ pc[t1] \in BodyPcs /\ pc[t2] \in BodyPcs) => cur[t1] # cur[t2]

\* C1 witness: one thread is in the body for a path for which another
\* thread's call has been rejected.
C1_Witness ==
    \E t1, t2 \in Threads :
        /\ t1 # t2
        /\ pc[t1] \in BodyPcs
        /\ pc[t2] = "ret"
        /\ att[t2].duplicate
        /\ cur[t1] = cur[t2]

\* C2: when the event path and the poller have both detected a path, the one
\* while the other's call was under way, and both calls have returned, the
\* ledger holds exactly one record for the path and transcribe_and_save was
\* called at most once for it.
C2_ExactlyOnePipeline ==
    \A p \in Names :
        ( /\ overlap[p]
          /\ Len(detections[p]) = 2
          /\ {detections[p][1], detections[p][2]} = {"event", "poll"}
          /\ \A t \in Threads : ~(pc[t] \in CallPcs /\ cur[t] = p) )
        => (Cardinality(RecordsOf(p)) = 1 /\ txCalls[p] <= 1)

\* C3: the keys of the registry are exactly the paths for which some thread
\* is between its registration and its cleanup.
C3_RegistryIsActiveSet ==
    DOMAIN currently_processing = {cur[t] : t \in {u \in Threads : pc[u] \in BodyPcs}}

\* C3 witness: a call that ended in the except clause has returned and no
\* thread is in the body: the registry is empty again.
C3_Witness ==
    /\ \E t \in Threads : pc[t] = "ret" /\ status[t] = "error"
    /\ \A t \in Threads : pc[t] \notin BodyPcs
    /\ DOMAIN currently_processing = {}

\* C4: the step of a call that finds its path registered changes neither the
\* registry, nor the ledger, nor the directories, and the call returns
\* having waited for nothing, transcribed nothing, moved nothing and recorded
\* nothing.
C4_DuplicateCallChangesNothing ==
    /\ [](\A t \in Threads :
            (pc[t] = "ret" /\ att[t].duplicate) =>
                /\ att[t].waits = 0 /\ att[t].tx = 0
                /\ att[t].moves = 0 /\ att[t].renames = 0
                /\ RecordsBy(pid[t]) = {})
    /\ [][\A t \in Threads :
            ( /\ pc[t] = "enter"
              /\ cur[t] \in DOMAIN currently_processing
              /\ pc'[t] # "enter" )
            => ( /\ pc'[t] = "ret"
                 /\ currently_processing' = currently_processing
                 /\ processed_files' = processed_files
                 /\ fsVars' = fsVars
                 /\ txCalls' = txCalls )]_vars

\* C4 witness: a rejected call is about to return and the entry of the other
\* attempt, with the other attempt's id, is still in the registry.
C4_Witness ==
    \E t \in Threads :
        /\ pc[t] = "ret"
        /\ att[t].duplicate
        /\ cur[t] \in DOMAIN currently_processing
        /\ currently_processing[cur[t]] # pid[t]

\* C5: a call in which transcribe_and_save raised ends (it reaches the
\* finally clause, still registered) with the source in the input directory,
\* and returns normally, with exactly one record of its own, an 'error' record
\* that carries the message, and without having called _move_to_done.
C5_TranscriptionErrorRecorded ==
    \A t \in Threads :
        (pc[t] \in {"cleanup", "ret"} /\ att[t].raised # NoExc) =>
            /\ exc[t] = NoExc
            /\ att[t].moves = 0 /\ att[t].renames = 0
            /\ pc[t] = "cleanup" => cur[t] \in inputDir
            /\ Cardinality(RecordsBy(pid[t])) = 1
            /\ \A i \in RecordsBy(pid[t]) :
                  /\ processed_files[i].path = cur[t]
                  /\ processed_files[i].status = "error"
                  /\ processed_files[i].error_message = att[t].raised

\* C5 witness: a call in which transcribe_and_save raised is about to return.
C5_Witness ==
    \E t \in Threads : pc[t] = "ret" /\ att[t].raised # NoExc /\ att[t].tx = 1

\* C6: a call that finds "<stem>.txt" in the output directory never calls
\* transcribe_and_save, and returns having called _move_to_done once and
\* appended one record, 'skipped' with 'Transcript already exists'.
C6_ExistingTranscriptSkips ==
    \A t \in Threads :
        att[t].hadOutput =>
            /\ att[t].tx = 0
            /\ pc[t] = "ret" =>
                  /\ att[t].moves = 1
                  /\ Cardinality(RecordsBy(pid[t])) = 1
                  /\ \A i \in RecordsBy(pid[t]) :
                        /\ processed_files[i].path = cur[t]
                        /\ processed_files[i].status = "skipped"
                        /\ processed_files[i].error_message = "Transcript already exists"

\* C6 witness: a call that found the transcript is about to return.
C6_Witness ==
    \E t \in Threads : pc[t] = "ret" /\ att[t].hadOutput /\ att[t].moves = 1

\* C7: a call that finds its path missing waits for nothing, transcribes
\* nothing and moves nothing, and returns with no record of its own in the
\* ledger and no entry of its own in the registry.
C7_MissingSourceNoOp ==
    \A t \in Threads :
        att[t].missing =>
            /\ att[t].waits = 0 /\ att[t].tx = 0
            /\ att[t].moves = 0 /\ att[t].renames = 0
            /\ RecordsBy(pid[t]) = {}
            /\ pc[t] = "ret" =>
                  \A k \in DOMAIN currently_processing :
                      currently_processing[k] # pid[t]

\* C7 witness: a call that found its path missing is about to return.
C7_Witness ==
    \E t \in Threads : pc[t] = "ret" /\ att[t].missing /\ cur[t] \notin inputDir

\* C8: no thread is ever in a call of _process_file for a name that begins
\* with '.' or '~'.
C8_NoTemporaryFileProcessed ==
    \A t \in Threads :
        pc[t] \in CallPcs => ~(cur[t][1] = "." \/ cur[t][1] = "~")

\* C9: no thread is ever in a call of _process_file for a directory or for a
\* name whose lower-cased extension is not a supported one.
C9_OnlySupportedFilesProcessed ==
    \A t \in Threads :
        pc[t] \in CallPcs =>
            /\ cur[t] \notin DirNames
            /\ Lower(Suffix(cur[t])) \in SUPPORTED_EXTENSIONS

\* C9 witness: a directory or a file with an unsupported extension is in the
\* input directory and the handler has taken its event and let it go.
C9_Witness ==
    \E p \in inputDir \ events :
        /\ p \in DirNames \/ Lower(Suffix(p)) \notin SUPPORTED_EXTENSIONS
        /\ pc["event"] = "idle"

\* C10: when the poll thread calls _process_file for a path, the ledger holds
\* no record of that path made within the last hour.
C10_PollerNeverStartsRecent ==
    pc["poll"] = "enter" =>
        ~\E i \in 1..Len(processed_files) :
            /\ processed_files[i].path = cur["poll"]
            /\ processed_files[i].processed_at > clock - RECENT_SECONDS

\* C11: after n sequential calls of _record_processed_file the ledger holds
\* min(n, 1000) records, and they are the last min(n, 1000) that were
\* appended, in the order in which they were appended.
C11_LedgerKeepsNewest ==
    LET n == calls
        len == Len(processed_files)
    IN  /\ len = Min(n, MAX_PROCESSED)
        /\ \A i \in 1..len :
              processed_files[i] = SequentialRecord(n - len + i, clock)

\* C11 witness: 1100 records were appended, 1000 are kept and the oldest of
\* them is the 101st.
C11_Witness ==
    /\ calls = MaxRecords
    /\ calls > MAX_PROCESSED
    /\ Len(processed_files) = MAX_PROCESSED
    /\ processed_files[1].processing_id = calls - MAX_PROCESSED + 1
    /\ processed_files[MAX_PROCESSED].processing_id = calls

\* The threads whose call has appended its record.
HasAppended(t) == pc[t] \in {"rec_len", "rec_slice", "rec_store", "cleanup", "ret"}
                     /\ status[t] \in {"success", "skipped", "error"}

\* C12: the ledger is never longer than 1000 records when the poller's
\* recency check reads it, and the record of a call that has appended is in
\* the ledger as long as fewer than 1000 records were appended after it.
C12_LedgerSynchronized ==
    /\ pc["poll"] = "poll_recent" => Len(processed_files) <= MAX_PROCESSED
    /\ \A t \in Threads : HasAppended(t) => RecordsBy(pid[t]) # {}

\* "<stem>_<n><suffix>"
CollisionName(name, n) == Stem(name) \o <<"_">> \o IntToStr(n) \o Suffix(name)

\* The name a relocation of name into done is to produce: the name itself
\* when it is free, else the collision name with the smallest free number.
FreeDoneName(name, done) ==
    IF name \notin done THEN name
    ELSE LET n == CHOOSE k \in 1..(Cardinality(done) + 1) :
                      /\ CollisionName(name, k) \notin done
                      /\ \A j \in 1..(k - 1) : CollisionName(name, j) \in done
         IN  CollisionName(name, n)

\* C13: a rename that takes the source out of the input directory puts it
\* into the done directory under the free name FreeDoneName gives, and every
\* file that was in the done directory is still there, not replaced.
C13_RelocationKeepsDoneFiles ==
    [][\A t \in Threads :
          ( /\ pc[t] = "rename" /\ pc'[t] # "rename"
            /\ cur[t] \in inputDir /\ cur[t] \notin inputDir' )
          => /\ FreeDoneName(cur[t], doneDir) \notin doneDir
             /\ doneDir' = doneDir \cup {FreeDoneName(cur[t], doneDir)}
             /\ done_path[t] \notin doneDir]_vars

\* C14: _move_to_done with the source gone changes no directory and attempts
\* no rename; a rename that fails changes no directory; in both cases no
\* exception reaches _process_file, which goes on to append its record; and
\* a call that has called _move_to_done ends with no exception and with one
\* record of its own, 'skipped' or 'success'.
C14_MoveToDoneNeverRaises ==
    /\ [][\A t \in Threads :
            /\ (pc[t] = "move" /\ pc'[t] # "move" /\ cur[t] \notin inputDir)
               => (pc'[t] = "record" /\ fsVars' = fsVars /\ exc'[t] = NoExc)
            /\ (pc[t] = "rename" /\ pc'[t] # "rename" /\ cur[t] \in inputDir')
               => (pc'[t] = "record" /\ fsVars' = fsVars /\ exc'[t] = NoExc)]_vars
    /\ [](\A t \in Threads :
            (pc[t] \in {"cleanup", "ret"} /\ att[t].moves > 0) =>
                /\ exc[t] = NoExc
                /\ att[t].moves = 1
                /\ Cardinality(RecordsBy(pid[t])) = 1
                /\ \A i \in RecordsBy(pid[t]) :
                      /\ processed_files[i].path = cur[t]
                      /\ processed_files[i].status = status[t]
                      /\ processed_files[i].status \in {"skipped", "success"})

\* C14 witness: two calls are about to return with their records made: one
\* whose _move_to_done found the source gone, one whose rename failed.
C14_Witness ==
    \E t1, t2 \in Threads :
        /\ pc[t1] = "ret" /\ att[t1].moves = 1 /\ att[t1].renames = 0
        /\ RecordsBy(pid[t1]) # {}
        /\ pc[t2] = "ret" /\ att[t2].moves = 1 /\ att[t2].renames = 1
        /\ cur[t2] \in inputDir /\ cur[t2] \notin doneDir
        /\ RecordsBy(pid[t2]) # {}

\* The thread is inside the loop of _wait_for_file_stability.
InWaitLoop(t) == pc[t] \in {"wait_test", "wait_stat", "wait_sleep"}

\* The last three sizes read by the thread's wait are the same size.
ThreeIdenticalReadings(t) ==
    LET w == readings[t]
        n == Len(w)
    IN  /\ samples[t] >= 3
        /\ w[n] = w[n - 1]
        /\ w[n - 1] = w[n - 2]

\* Each of the last three sizes read is the size read before it, where the
\* size "read before" the first is the initial last_size, 0.
ThreeEqualToPrevious(t) ==
    LET w == readings[t]
    IN  /\ Len(w) = 4
        /\ \A i \in 1..3 : w[i] = w[i + 1]

\* C15 as stated: the wait does not go on past a sample at which the last
\* three readings are identical, and it returns only at such a sample, or
\* when max_wait has elapsed (or when a sample has failed).
C15_ReturnsAtThreeIdenticalReadings ==
    \A t \in Threads :
        /\ InWaitLoop(t) => ~ThreeIdenticalReadings(t)
        /\ pc[t] = "wait_ret" =>
              \/ ThreeIdenticalReadings(t)
              \/ waited[t] >= MAX_WAIT
              \/ stat_exc[t] # NoExc

\* C15 as amended: the wait does not go on past a sample that is the third
\* in a row to equal the one before it (the first sample being compared with
\* 0), it returns only at such a sample or when max_wait has elapsed (or when
\* a sample has failed), and it takes no sample once max_wait has elapsed.
C15_ReturnsWhenCounterReachesThree ==
    \A t \in Threads :
        /\ InWaitLoop(t) => ~ThreeEqualToPrevious(t)
        /\ pc[t] = "wait_ret" =>
              \/ ThreeEqualToPrevious(t)
              \/ waited[t] >= MAX_WAIT
              \/ stat_exc[t] # NoExc
        /\ pc[t] = "wait_stat" => waited[t] < MAX_WAIT

\* C15 witness: the wait returns at the fourth of four readings of the same
\* size, not 0, before max_wait has elapsed.
C15_Witness ==
    \E t \in Threads :
        /\ pc[t] = "wait_ret"
        /\ stat_exc[t] = NoExc
        /\ waited[t] < MAX_WAIT
        /\ samples[t] = 4
        /\ readings[t][1] # 0
        /\ ThreeEqualToPrevious(t)

\* C16: a stat() that raises ends the wait at once: no exception reaches
\* _process_file, no further sample is taken, and _process_file goes on
\* with the output-path check.
C16_StatFailureEndsWait ==
    /\ [](\A t \in Threads :
            stat_exc[t] # NoExc => (pc[t] = "wait_ret" /\ exc[t] = NoExc))
    /\ [][\A t \in Threads :
            /\ (pc[t] = "wait_stat" /\ pc'[t] # "wait_stat" /\ cur[t] \notin inputDir)
               => (stat_exc'[t] = "not_found" /\ pc'[t] = "wait_ret")
            /\ (pc[t] = "wait_ret" /\ pc'[t] # "wait_ret")
               => (pc'[t] = "outcheck" /\ exc'[t] = NoExc /\ samples'[t] = 0)]_vars

\* C16 witness: the file has disappeared while the wait was sampling it, the
\* stat() after two good samples has raised, and the wait is returning.
C16_Witness ==
    \E t \in Threads :
        /\ pc[t] = "wait_ret"
        /\ stat_exc[t] = "not_found"
        /\ samples[t] = 3
        /\ cur[t] \notin inputDir

\* C17: when transcribe_file returns, fewer than max_retries remote calls
\* have failed, one more call was made than have failed, the loop has slept
\* once per failure, and the text returned is the text of the last call ("",
\* when that call gave none); and a failed call that is not the
\* max_retries-th is followed by a sleep and another call.
C17_RetryThenSucceed ==
    /\ [](\A t \in Threads :
            pc[t] = "tf_save" =>
                /\ failures[t] < max_retries
                /\ remote_calls[t] = failures[t] + 1
                /\ sleeps[t] = failures[t]
                /\ transcript[t] = (IF remote_text[t] = NoText THEN "" ELSE remote_text[t]))
    /\ [][\A t \in Threads :
            /\ ( /\ pc[t] = "tf_call"
                 /\ failures'[t] = failures[t] + 1
                 /\ failures'[t] < max_retries )
               => pc'[t] = "tf_sleep"
            /\ (pc[t] = "tf_sleep" /\ pc'[t] # "tf_sleep")
               => (pc'[t] = "tf_call" /\ sleeps'[t] = sleeps[t] + 1)]_vars

\* C17 witness: with max_retries = 3 two calls have failed, the third has
\* returned a text, and transcribe_file returns it after two sleeps.
C17_Witness ==
    \E t \in Threads :
        /\ pc[t] = "tf_save"
        /\ max_retries = 3
        /\ failures[t] = 2
        /\ sleeps[t] = 2
        /\ transcript[t] = "text two"

\* C18: transcribe_file never makes more than max_retries remote calls; once
\* max_retries calls have failed it has made exactly max_retries calls, has
\* slept max_retries - 1 times and is not in the loop any more; and the step
\* of the max_retries-th failure raises TranscriberError.
C18_RetriesExhausted ==
    /\ [](\A t \in Threads :
            /\ remote_calls[t] <= max_retries
            /\ failures[t] = max_retries =>
                  /\ pc[t] \notin {"tf_call", "tf_sleep", "tf_save"}
                  /\ remote_calls[t] = max_retries
                  /\ sleeps[t] = max_retries - 1)
    /\ [][\A t \in Threads :
            (pc[t] = "tf_call" /\ failures'[t] = max_retries /\ failures[t] # max_retries)
            => /\ pc'[t] = "except"
               /\ exc'[t] = "Transcription failed after retries"]_vars

\* C18 witness: with max_retries = 3 all three calls have failed and the
\* exception is on its way to the except clause of _process_file.
C18_Witness ==
    \E t \in Threads :
        /\ pc[t] = "except"
        /\ max_retries = 3
        /\ failures[t] = 3
        /\ remote_calls[t] = 3
        /\ exc[t] = "Transcription failed after retries"

\* C19: stop() is never held up by a pipeline execution whose transcription
\* call has not returned: whenever it waits for the observer thread or for
\* the poll thread while that thread is inside the transcription call, its
\* wait can end.
C19_StopNeverBlocksOnPipeline ==
    /\ (pc["sweep"] = "stop_join_observer" /\ pc["event"] = "transcribe")
          => ENABLED StopJoinObserver
    /\ (pc["sweep"] = "stop_join_poll" /\ pc["poll"] = "transcribe")
          => ENABLED StopJoinPoll

\* C20: once the stop event is set, the poll thread lists the directory no
\* more, leaves its wait by ending, and begins no further pipeline
\* execution.
C20_PollLoopEndsAfterStop ==
    [][stop_event =>
          /\ pc["poll"] = "poll_wait" => pc'["poll"] \in {"poll_wait", "poll_done"}
          /\ ~(pc["poll"] # "enter" /\ pc'["poll"] = "enter")]_vars

\* C21: when run() has returned after a signal was handled while the service
\* was running, FolderMonitor.stop() has been called on the monitor: its
\* observer is stopped and its stop event is set.
C21_SignalStopsMonitor ==
    (svc_pc = "returned" /\ signalled_running)
        => (monitor_stops > 0 /\ observer_stopped /\ stop_event)

\* C22: a call of TranscriptService.stop() made while the service is running
\* leaves running False, whether or not the monitor's stop() raises.
C22_StopLeavesNotRunning ==
    [][(stop_calls' = stop_calls + 1 /\ start_calls' = start_calls /\ running)
          => ~running']_vars

\* What a call of start or stop that does nothing leaves as it was.
ServiceState ==
    <<running, monitor, transcribers_created, monitors_created, monitor_starts,
      monitor_stops, stop_event, observer_stopped, config_state, exit_status>>

\* C23: start() on a running service creates and starts nothing and changes
\* nothing; stop() on a service that is not running does not call the
\* monitor's stop() and changes nothing.
C23_GuardedCallsChangeNothing ==
    [][/\ (start_calls' = start_calls + 1 /\ running)
            => (ServiceState' = ServiceState /\ stop_calls' = stop_calls)
       /\ (stop_calls' = stop_calls + 1 /\ start_calls' = start_calls /\ ~running)
            => ServiceState' = ServiceState]_vars

\* C23 witness: three calls by the program using the service: stop() before
\* any start(), a start() that succeeded, and start() again on the running
\* service.  No call of the monitor's stop(), one transcriber, one monitor.
C23_Witness ==
    /\ svc_pc = "idle"
    /\ api_calls = 3
    /\ start_calls = 2
    /\ stop_calls = 1
    /\ running
    /\ monitor_stops = 0
    /\ transcribers_created = 1
    /\ monitors_created = 1
    /\ monitor_starts = 1

\* C24: when loading the configuration or setting up logging has failed, the
\* process has exited with a non-zero status, and no transcriber and no
\* monitor was created and no monitor started.
C24_ConfigFailureExits ==
    config_state \in {"ConfigError", "Exception"} =>
        /\ svc_pc = "exited"
        /\ exit_status # 0
        /\ transcribers_created = 0
        /\ monitors_created = 0
        /\ monitor_starts = 0
        /\ monitor = "None"
        /\ ~running

\* C24 witness: load_config raised ConfigError and __init__ called
\* sys.exit(1).
C24_Witness ==
    /\ config_state = "ConfigError"
    /\ svc_pc = "exited"
    /\ exit_status = EXIT_FAILURE

\* The ledger has an error record for path p.
ErrorRecordOf(p) ==
    \E i \in 1..Len(processed_files) :
        processed_files[i].path = p /\ processed_files[i].status = "error"

\* C25: no failure inside the pipeline ends the startup sweep, the observer
\* thread or the poll loop: no exception leaves _process_file, each return
\* of it takes the sweep and the poll loop to the next entry with the rest
\* of the listing untouched, the poll loop ends only after the stop event
\* is set, and while it is not set the waiting poll loop can list again.
C25_FailuresContained ==
    /\ [](/\ pc["sweep"] # "sweep_failed"
          /\ pc["event"] # "event_failed"
          /\ \A t \in Threads : pc[t] = "ret" => exc[t] = NoExc
          /\ pc["poll"] = "poll_done" => stop_event
          /\ (pc["poll"] = "poll_wait" /\ ~stop_event) => ENABLED PollList)
    /\ [][/\ (pc["sweep"] = "ret" /\ pc'["sweep"] # "ret")
               => (pc'["sweep"] = "sweep_iter" /\ todo'["sweep"] = todo["sweep"])
          /\ (pc["poll"] = "ret" /\ pc'["poll"] # "ret")
               => (pc'["poll"] = "poll_iter" /\ todo'["poll"] = todo["poll"])]_vars

\* C25 witness: the sweep's call for one of the two files ended with an
\* error record, and the sweep has begun the pipeline for the other.
C25_Witness ==
    \E p \in StopNames : \E q \in StopNames \ {p} :
        /\ detections[p] = <<"sweep">>
        /\ ErrorRecordOf(p)
        /\ cur["sweep"] = q
        /\ pc["sweep"] = "transcribe"

\* The ledger has a record with status st for path p.
HasRecord(p, st) ==
    \E i \in 1..Len(processed_files) :
        processed_files[i].path = p /\ processed_files[i].status = st

\* C26: two different sources that were given to the pipeline have different
\* transcript paths, and a source is recorded as skipped only when its own
\* transcription was called before.
C26_OneArtifactPerSource ==
    /\ \A p \in Names : \A q \in Names \ {p} :
          (detections[p] # <<>> /\ detections[q] # <<>>)
              => OutputName(p) # OutputName(q)
    /\ \A p \in Names : HasRecord(p, "skipped") => txCalls[p] > 0

\* A file the claim speaks of: a supported, non-temporary file that is in
\* the input directory with no ledger record of the last hour, while stop
\* is not requested.
AwaitsPoll(p) ==
    /\ is_file(p)
    /\ is_supported_file(p)
    /\ ~IsTemporaryName(p)
    /\ \A i \in 1..Len(processed_files) :
          processed_files[i].path = p
              => processed_files[i].processed_at <= clock - RECENT_SECONDS
    /\ ~stop_event

\* The poll thread has just called _process_file(p).
PollGives(p) == pc["poll"] = "enter" /\ cur["poll"] = p

\* C27: with no event delivered, whenever such a file awaits the poll loop
\* (and the call budget of the model is not used up), the poll thread
\* eventually calls the pipeline for it, unless the file leaves the
\* directory or gets a record of the last hour first.
C27_PollBackstop ==
    \A p \in Names :
        (AwaitsPoll(p) /\ calls < MaxCalls)
            ~> (PollGives(p) \/ ~AwaitsPoll(p) \/ calls = MaxCalls)

\* C27 witness: the event of a.mp3 was never delivered, the poll thread's
\* first call for it ended with an error record, an hour has passed, and
\* the poll thread calls the pipeline for it again.
C27_Witness ==
    /\ PollGives(NameA)
    /\ NameA \in events
    /\ detections[NameA] = <<"poll", "poll">>
    /\ HasRecord(NameA, "error")
    /\ clock = RECENT_SECONDS

\* C28: what get_statistics returned: the total is the number of ledger
\* records, the three counts add up to it, and the success ratio is
\* successful / total, or 0 for the empty ledger.
C28_StatisticsAddUp ==
    query = "statistics" =>
        /\ stats.total_processed = Len(processed_files)
        /\ stats.successful + stats.errors + stats.skipped = stats.total_processed
        /\ stats.success_rate.den # 0
        /\ IF stats.total_processed = 0
           THEN stats.success_rate.num = 0
           ELSE stats.success_rate.num * stats.total_processed
                    = stats.successful * stats.success_rate.den

\* C28 witness: statistics of a ledger with one record of each status.
C28_Witness ==
    /\ query = "statistics"
    /\ stats.total_processed = 3
    /\ stats.successful = 1
    /\ stats.errors = 1
    /\ stats.skipped = 1

\* How long before now the record was completed.
AgeOf(rec) == clock - rec.processed_at

\* Record rec is among those get_recent_files returned.
Returned(rec) == \E k \in 1..Len(recent) : recent[k] = rec

\* C29: what get_recent_files(hours) returned: every ledger record younger
\* than hours * 3600 seconds, no record older than that, each once and in
\* the order of the ledger; and the call leaves the ledger as it was.
C29_RecentFilesWindow ==
    /\ [](query = "recent" =>
            /\ \A i \in 1..Len(processed_files) :
                  /\ AgeOf(processed_files[i]) < hours * 3600
                        => Returned(processed_files[i])
                  /\ AgeOf(processed_files[i]) > hours * 3600
                        => ~Returned(processed_files[i])
            /\ \A k \in 1..Len(recent) :
                  /\ recent[k].processing_id \in 1..Len(processed_files)
                  /\ recent[k] = processed_files[recent[k].processing_id]
                  /\ \A l \in (k + 1)..Len(recent) :
                        recent[k].processing_id < recent[l].processing_id)
    /\ [][(queries' = queries + 1 /\ query' = "recent")
              => processed_files' = processed_files]_vars

\* C29 witness: get_recent_files(24) of a ledger with a record 25 hours
\* old, a record 24 hours old and a record 30 minutes old has returned the
\* last alone.
C29_Witness ==
    /\ query = "recent"
    /\ hours = 24
    /\ Len(processed_files) = 3
    /\ AgeOf(processed_files[1]) = 25 * 3600
    /\ AgeOf(processed_files[2]) = 24 * 3600
    /\ AgeOf(processed_files[3]) = 1800
    /\ recent = <<processed_files[3]>>

\* The exceptions of the two checks of transcribe_file.
CheckErrors == {"Audio file does not exist", "Unsupported file format"}

\* C30: transcribe_file called for a path that does not exist or has an
\* unsupported extension raises in its first step, one of the two check
\* errors, with no remote call and no sleep; and whenever one of these
\* errors is raised no remote call and no sleep was made.
C30_ChecksFailWithoutRetry ==
    /\ [](\A t \in Threads :
            exc[t] \in CheckErrors => (remote_calls[t] = 0 /\ sleeps[t] = 0))
    /\ [][\A t \in Threads :
            ( /\ pc[t] = "transcribe"
              /\ pc'[t] # "transcribe"
              /\ (cur[t] \notin inputDir \/ Lower(Suffix(cur[t])) \notin SUPPORTED_EXTENSIONS) )
            => /\ pc'[t] = "except"
               /\ exc'[t] \in CheckErrors
               /\ remote_calls'[t] = 0
               /\ sleeps'[t] = 0]_vars

\* C30 witness: transcribe_file has raised for n.txt, which exists.
C30_Witness ==
    \E t \in Threads :
        /\ pc[t] = "except"
        /\ cur[t] = NameTxt
        /\ cur[t] \in inputDir
        /\ exc[t] = "Unsupported file format"
        /\ remote_calls[t] = 0


\* Whether the registry holds the entry of thread t's call.
Registered(t) ==
    /\ cur[t] \in DOMAIN currently_processing
    /\ currently_processing[cur[t]] = pid[t]

\* C31: a call whose transcribe_and_save has returned goes through
\* _move_to_done, then its 'success' record, then the pop of the registry, in
\* this order; every step that appends a record finds the record's path in
\* the registry, under the record's processing id, and leaves it there; and
\* every step that moves a source out of the input directory is taken by a
\* call that either took the skipped branch or whose one transcribe_and_save
\* has returned without an exception.
C31_SuccessOrder ==
    /\ [](\A t \in Threads :
            status[t] = "success" =>
                /\ att[t].tx = 1 /\ att[t].raised = NoExc
                /\ pc[t] \in {"move", "rename", "record", "cleanup", "ret"}
                /\ pc[t] = "move" => att[t].moves = 0 /\ att[t].renames = 0
                /\ pc[t] = "rename" => att[t].moves = 1 /\ att[t].renames = 0
                /\ pc[t] \in {"move", "rename", "record"} =>
                      RecordsBy(pid[t]) = {} /\ Registered(t)
                /\ pc[t] \in {"record", "cleanup", "ret"} => att[t].moves = 1
                /\ pc[t] \in {"cleanup", "ret"} =>
                      /\ Cardinality(RecordsBy(pid[t])) = 1
                      /\ \A i \in RecordsBy(pid[t]) :
                            processed_files[i].status = "success"
                /\ pc[t] = "cleanup" => Registered(t)
                /\ pc[t] = "ret" => ~Registered(t))
    /\ [][ /\ processed_files' # processed_files =>
                LET rec == processed_files'[Len(processed_files')]
                IN  /\ Len(processed_files') = Len(processed_files) + 1
                    /\ rec.path \in DOMAIN currently_processing
                    /\ currently_processing[rec.path] = rec.processing_id
                    /\ currently_processing' = currently_processing
           /\ \A p \in inputDir \ inputDir' :
                \E t \in Threads :
                    /\ cur[t] = p /\ pc[t] = "rename" /\ Registered(t)
                    /\ \/ status[t] = "skipped" /\ att[t].tx = 0
                       \/ /\ status[t] = "success"
                          /\ att[t].tx = 1 /\ att[t].raised = NoExc
                          /\ OutputName(p) \in outputDir ]_vars

\* C31 witness: a call whose transcription succeeded is about to return: its
\* source is in done, its 'success' record is in the ledger and its entry is
\* out of the registry.
C31_Witness ==
    \E t \in Threads :
        /\ pc[t] = "ret" /\ status[t] = "success"
        /\ cur[t] \in doneDir /\ cur[t] \notin inputDir
        /\ RecordsBy(pid[t]) # {}
        /\ ~Registered(t)


\* C32: with calls for different sources under way at once, a rename that
\* takes a source out of the input directory lands on a name that no file of
\* the done directory has at that moment, so that the done directory keeps
\* every file it had (files of earlier runs and originals moved there by
\* other calls) and holds one file more.
C32_ConcurrentRelocationSafe ==
    [][\A t \in Threads :
          ( /\ pc[t] = "rename" /\ pc'[t] # "rename"
            /\ cur[t] \in inputDir /\ cur[t] \notin inputDir'
            /\ \E u \in Threads \ {t} : pc[u] \in BodyPcs /\ cur[u] # cur[t] )
          => /\ done_path[t] \notin doneDir
             /\ doneDir \subseteq doneDir'
             /\ Cardinality(doneDir') = Cardinality(doneDir) + 1]_vars


\* C33: a call that has registered its path and found the source present
\* (it went on to the stability wait) has no record of its own up to its
\* record step, and exactly one, 'skipped', 'success' or 'error', from then
\* on, while its entry is still in the registry at the finally clause; a call
\* rejected as a duplicate or ended because the source is missing never has a
\* record; and a step appends at most one record, that of a call at its
\* record step or in its except clause.
C33_OneRecordPerExecution ==
    /\ [](\A t \in Threads :
            /\ (pc[t] \in CallPcs /\ att[t].waits = 1) =>
                  /\ pc[t] \in {"outcheck", "transcribe", "move", "rename",
                                "record", "except"} => RecordsBy(pid[t]) = {}
                  /\ pc[t] \in {"cleanup", "ret"} =>
                        /\ Cardinality(RecordsBy(pid[t])) = 1
                        /\ \A i \in RecordsBy(pid[t]) :
                              /\ processed_files[i].path = cur[t]
                              /\ processed_files[i].status \in
                                    {"skipped", "success", "error"}
                  /\ pc[t] = "cleanup" => Registered(t)
            /\ (pc[t] \in CallPcs /\ (att[t].duplicate \/ att[t].missing)) =>
                  /\ att[t].waits = 0
                  /\ RecordsBy(pid[t]) = {})
    /\ [][processed_files' # processed_files =>
            /\ Len(processed_files') = Len(processed_files) + 1
            /\ SubSeq(processed_files', 1, Len(processed_files)) = processed_files
            /\ \E t \in Threads :
                  /\ pc[t] \in {"record", "except"}
                  /\ pc'[t] = "cleanup"
                  /\ processed_files'[Len(processed_files')].processing_id = pid[t]]_vars

\* C33 witness: a call that found its source present has made its one record
\* and popped its entry, and another call, which found the same source
\* missing, is about to return with no record.
C33_Witness ==
    \E t, u \in Threads :
        /\ pc[t] = "ret" /\ att[t].waits = 1
        /\ Cardinality(RecordsBy(pid[t])) = 1
        /\ pc[u] = "ret" /\ att[u].missing
        /\ cur[u] = cur[t]
        /\ RecordsBy(pid[u]) = {}


\* C34: once a signal has been handled in run(), no later step of run() sets
\* running from False to True.
C34_SignalNotLost ==
    [][(signals > 0 /\ svc_pc \in {"run_start", "loop_test", "sleep", "finally"})
          => ~(~running /\ running')]_vars


\* C35: a call of start() that has started the threads of its monitor and
\* then fails (it does not leave the service running) has called the
\* monitor's stop(): the observer is stopped and the stop event is set when
\* start() raises.
C35_FailedStartStopsMonitor ==
    [][( /\ start_calls' = start_calls + 1
         /\ monitor_starts' = monitor_starts + 1
         /\ monitor' = "started"
         /\ ~running' )
          => ( /\ monitor_stops' = monitor_stops + 1
               /\ observer_stopped'
               /\ stop_event' )]_vars


\* C37: the wait takes at most max_wait samples, one per second at the most
\* (a sample is taken only when the sleeps so far have taken at least a
\* second for each sample before it and less than max_wait all together), and
\* every round of the loop moves the elapsed time on by a second or more, so
\* that the loop condition fails after max_wait rounds at the latest, whatever
\* the sizes read.
C37_WaitTerminates ==
    /\ [](\A t \in Threads :
            /\ samples[t] * SLEEP_SECONDS <= MAX_WAIT
            /\ pc[t] \in {"wait_test", "wait_ret"} =>
                  samples[t] * SLEEP_SECONDS <= waited[t] + SLEEP_SECONDS
            /\ pc[t] = "wait_stat" =>
                  (samples[t] * SLEEP_SECONDS <= waited[t] /\ waited[t] < MAX_WAIT))
    /\ [][\A t \in Threads :
            /\ (pc[t] = "wait_sleep" /\ pc'[t] # "wait_sleep") =>
                  (pc'[t] = "wait_test" /\ waited'[t] >= waited[t] + SLEEP_SECONDS)
            /\ (pc[t] = "wait_test" /\ pc'[t] # "wait_test" /\ waited[t] >= MAX_WAIT) =>
                  pc'[t] = "wait_ret"
            /\ (pc[t] = "wait_ret" /\ pc'[t] # "wait_ret") => pc'[t] = "outcheck"]_vars

\* C37 witness: the wait returns after max_wait samples, none of which has
\* failed, the last four readings each differing from the one before.
C37_Witness ==
    \E t \in Threads :
        /\ pc[t] = "wait_ret"
        /\ samples[t] * SLEEP_SECONDS = MAX_WAIT
        /\ stat_exc[t] = NoExc
        /\ stable_count[t] = 0
        /\ Len(readings[t]) = 4
        /\ \A i \in 1..3 : readings[t][i] # readings[t][i + 1]


\* The ledger records of the calls whose transcribe_and_save wrote to the
\* output file o: those that returned, and those whose save_transcript failed.
ArtifactWriters(o) ==
    {i \in 1..Len(processed_files) :
        /\ OutputName(processed_files[i].path) = o
        /\ \/ processed_files[i].status = "success"
           \/ /\ processed_files[i].status = "error"
              /\ processed_files[i].error_message = "Failed to save transcript"}

\* The output file o is what a failed save_transcript has left: the last call
\* that wrote to it raised.
LeftByFailedSave(o) ==
    /\ o \in outputDir
    /\ ArtifactWriters(o) # {}
    /\ LET last == CHOOSE i \in ArtifactWriters(o) :
                       \A j \in ArtifactWriters(o) : j <= i
       IN  processed_files[last].status = "error"

\* C36: a rename that takes a source out of the input directory is the
\* rename of a call whose transcribe_and_save has returned, or of a call that
\* found the output file at its check, and then the output file is not one
\* that a failed save_transcript has left behind.
C36_RelocationNeedsCompleteTranscript ==
    [][\A t \in Threads :
          ( /\ pc[t] = "rename" /\ pc'[t] # "rename"
            /\ cur[t] \in inputDir /\ cur[t] \notin inputDir' )
          => \/ /\ status[t] = "success"
                /\ att[t].tx = 1 /\ att[t].raised = NoExc
             \/ /\ status[t] = "skipped" /\ att[t].hadOutput
                /\ ~LeftByFailedSave(OutputName(cur[t]))]_vars


\* C38: whatever max_retries the client was constructed with, no call of
\* transcribe_file ends in the raise that follows the for loop: a call that
\* raises for want of a transcript has made a remote call that failed.
C38_FinalRaiseUnreachable ==
    \A t \in Threads :
        /\ exc[t] # AfterLoopError
        /\ exc[t] = "Transcription failed after retries" =>
              (remote_calls[t] > 0 /\ failures[t] = remote_calls[t])

====
